---- MODULE Spec2Model ----
(***************************************************************************)
(* A model of the Stendhal items table (stendhal-items): the population    *)
(* run of the page (populate), the class selection (parser.parseClasses),  *)
(* and the item attribute-derivation pipeline (parser.parseItems): the     *)
(* dual-wield merge through main.pop, the derived dpt and the "special"    *)
(* trait list.                                                             *)
(*                                                                         *)
(* Numbers.  A JavaScript Number is modelled as an exact fixed-point       *)
(* value: the integer n stands for n / Scale.  All inputs of the model     *)
(* have at most four decimals, and every product or quotient the code      *)
(* takes is rounded by the code itself (Math.round) before it is used, so  *)
(* the fixed-point value is the one the code observes up to the last-bit   *)
(* error of IEEE doubles, which the model does not represent.  The three   *)
(* non-finite results of a division (NaN, Infinity, -Infinity) are         *)
(* represented explicitly: see Num, NaN, PosInf, NegInf.                   *)
(*                                                                         *)
(* Strings.  A string the code only copies or compares is a TLA+ string.   *)
(* A string the code looks into (an attribute's value: parseFloat,         *)
(* includes, split) is a sequence of one-character strings; Str turns it   *)
(* into the TLA+ string of a trait.                                        *)
(***************************************************************************)
EXTENDS Integers, Sequences, FiniteSets, TLC

VARIABLES
    className,          \* main.className
    showUnattainable,   \* main.showUnattainable
    available,          \* classes.available
    items,              \* main.items
    pending,            \* the class documents fetchItemsForClass has still to fetch
    pc,                 \* where populate() stands
    log,                \* the lines given to logger, oldest first
    iterations          \* one entry per finished pass of parseItems' loop

vars == <<className, showUnattainable, available, items, pending, pc, log, iterations>>

---------------------------------------------------------------------------
(* Numbers *)

\* One unit of the fixed-point representation of a Number is 1 / Scale.
Scale == 10000

Num(n) == [kind |-> "fin", v |-> n]
NaN == [kind |-> "nan", v |-> 0]
PosInf == [kind |-> "inf", v |-> 1]
NegInf == [kind |-> "inf", v |-> -1]

\* An integer of the source text, as a Number.
Whole(n) == n * Scale

Abs(n) == IF n < 0 THEN -n ELSE n

\* Math.round of the quotient num / den (den # 0): the nearest integer, a tie
\* going up (towards +Infinity), which is floor(num / den + 1/2).
MathRoundDiv(num, den) ==
    IF den > 0 THEN (2 * num + den) \div (2 * den)
    ELSE (2 * (-num) + (-den)) \div (2 * (-den))

Digits == <<"0", "1", "2", "3", "4", "5", "6", "7", "8", "9">>

DigitValue(c) == CHOOSE d \in 0..9 : Digits[d + 1] = c

IsDigit(c) == \E d \in 0..9 : Digits[d + 1] = c

RECURSIVE Str(_)
\* The string made of the characters of s.
Str(s) == IF s = <<>> THEN "" ELSE Head(s) \o Str(Tail(s))

RECURSIVE PadFraction(_, _)
\* The last width decimal digits of f, leading zeros included.
PadFraction(f, width) ==
    IF width = 0 THEN ""
    ELSE PadFraction(f \div 10, width - 1) \o ToString(f % 10)

RECURSIVE StripZeros(_, _)
\* The width decimals of a fraction f > 0, without its trailing zeros.
StripZeros(f, width) ==
    IF f % 10 = 0 /\ width > 1 THEN StripZeros(f \div 10, width - 1)
    ELSE PadFraction(f, width)

\* The decimals of a Number, from its fraction frac (in units of 1 / Scale).
FractionToString(frac) == IF frac = 0 THEN "" ELSE "." \o StripZeros(frac, 4)

\* "" + n for a finite Number n: the shortest decimal, no "+" sign.
NumberToString(n) ==
    (IF n < 0 THEN "-" ELSE "")
    \o ToString(Abs(n) \div Scale)
    \o FractionToString(Abs(n) % Scale)

---------------------------------------------------------------------------
(* Number.parseFloat and util.parseNumberDefault *)

RECURSIVE DigitPrefixLen(_)
\* How many decimal digits s starts with.
DigitPrefixLen(s) ==
    IF s = <<>> \/ ~IsDigit(Head(s)) THEN 0 ELSE 1 + DigitPrefixLen(Tail(s))

RECURSIVE DigitsValue(_, _)
\* The integer written by the first n characters of s (all digits).
DigitsValue(s, n) ==
    IF n = 0 THEN 0
    ELSE 10 * DigitsValue(s, n - 1) + DigitValue(s[n])

RECURSIVE FractionValue(_, _, _)
\* The first n characters of s (all digits) read as decimals, in units of
\* unit / 10 each step; decimals beyond the fourth are below the model's
\* resolution.
FractionValue(s, n, unit) ==
    IF n = 0 \/ unit = 0 THEN 0
    ELSE DigitValue(Head(s)) * unit + FractionValue(Tail(s), n - 1, unit \div 10)

RECURSIVE SkipSpaces(_)
SkipSpaces(s) == IF s # <<>> /\ Head(s) = " " THEN SkipSpaces(Tail(s)) ELSE s

InfinityWord == <<"I", "n", "f", "i", "n", "i", "t", "y">>

StartsWith(s, p) == Len(s) >= Len(p) /\ SubSeq(s, 1, Len(p)) = p

\* The literal of whole digits (ni of them) and decimals f (nf of them).
DecimalLiteral(whole, ni, f, nf) ==
    IF ni = 0 /\ nf = 0 THEN NaN
    ELSE Num(whole * Scale + FractionValue(f, nf, Scale \div 10))

\* The decimals that follow the whole digits: what follows a "." there.
DecimalsOf(rest) == IF rest # <<>> /\ Head(rest) = "." THEN Tail(rest) ELSE <<>>

WithDecimals(whole, ni, f) == DecimalLiteral(whole, ni, f, DigitPrefixLen(f))

WithWhole(u, ni) ==
    WithDecimals(DigitsValue(u, ni), ni, DecimalsOf(SubSeq(u, ni + 1, Len(u))))

\* The number an unsigned text starts with: "Infinity", or the longest
\* decimal literal; NaN when there is none.  What follows is ignored.
ParseUnsigned(u) ==
    IF StartsWith(u, InfinityWord) THEN PosInf ELSE WithWhole(u, DigitPrefixLen(u))

IsSigned(t) == t # <<>> /\ Head(t) \in {"+", "-"}

Negative(t) == t # <<>> /\ Head(t) = "-"

WithSign(negative, n) == IF negative THEN [n EXCEPT !.v = -@] ELSE n

\* Number.parseFloat of a string: leading blanks, an optional sign, then the
\* number.  (An exponent part is not modelled: no input of the model holds
\* an "e".)
ParseSigned(t) == WithSign(Negative(t), ParseUnsigned(IF IsSigned(t) THEN Tail(t) ELSE t))

ParseFloatString(s) == ParseSigned(SkipSpaces(s))

\* The value of an attribute as the DOM hands it out: undefined (no such
\* element), null (an element without a value attribute) or a string.
Undefined == [tag |-> "undefined", s |-> <<>>]
Null == [tag |-> "null", s |-> <<>>]
Text(s) == [tag |-> "string", s |-> s]

\* Number.parseFloat(value): null and undefined are converted to the strings
\* "null" and "undefined", which hold no number.
parseFloat(value) ==
    IF value.tag = "string" THEN ParseFloatString(value.s) ELSE NaN

\* if (Number.isNaN(res) || !Number.isFinite(res)) return def; return res;
FiniteOr(res, def) == IF res.kind = "nan" \/ res.kind # "fin" THEN def ELSE res.v

\* util.parseNumberDefault
parseNumberDefault(value, def) == FiniteOr(parseFloat(value), def)

---------------------------------------------------------------------------
(* classes *)

groups_weapons == <<"axes", "clubs", "ranged", "swords", "whips">>
groups_protective == <<"armors", "boots", "cloaks", "helmets", "legs", "shields">>
groups_projectiles == <<"arrows", "missiles">>

\* classes.excludes
excludes == <<"dummy_weapons">>

\* classes.getGroupNames(): the keys of classes.groups, in their order.
getGroupNames == <<"weapons", "protective", "projectiles">>

\* classes.groups[name], for a group name.
groups(name) ==
    CASE name = "weapons" -> groups_weapons
      [] name = "protective" -> groups_protective
      [] name = "projectiles" -> groups_projectiles

\* Array.prototype.indexOf(x) > -1
Contains(seq, x) == \E i \in 1..Len(seq) : seq[i] = x

\* isWeaponType without the name of the group itself.
isWeaponTypeMembersOnly(name) == Contains(groups_weapons, name)

isWeaponType(name) == name = "weapons" \/ Contains(groups_weapons, name)

isArmorType(name) == name = "protective" \/ Contains(groups_protective, name)

isRangedType(name) == name = "ranged"

isProjectileType(name) == name = "projectiles" \/ Contains(groups_projectiles, name)

---------------------------------------------------------------------------
(* parser.numberAttribute, parser.stringAttribute *)

\* The names of the children of an item's <attributes> block the code reads.
AttributeNames ==
    {"min_level", "rate", "atk", "def", "range", "damagetype", "statusattack",
     "lifesteal", "amount", "regen", "frequency", "immunization"}

\* An <attributes> block: for each name, the value attribute of its first
\* child of that name (Undefined: no such child; Null: a child without a
\* value attribute).
NoAttributes == [n \in AttributeNames |-> Undefined]

\* numberAttribute that answers 0, not def, for a missing element.
numberAttributeZeroWhenMissing(attributes, name, def) ==
    IF attributes[name].tag = "undefined" THEN 0
    ELSE parseNumberDefault(attributes[name], def)

\* parser.numberAttribute(attributes, name, def)
numberAttribute(attributes, name, def) ==
    IF attributes[name].tag = "undefined" THEN def
    ELSE parseNumberDefault(attributes[name], def)

\* parser.stringAttribute(attributes, name): undefined, null or the string.
stringAttribute(attributes, name) == attributes[name]

---------------------------------------------------------------------------
(* main.pop *)

\* The index of the first record of list named name, 0 when there is none
\* (res.idx + 1 of the code).
IndexOfName(list, name) ==
    IF \E i \in 1..Len(list) : list[i].name = name
    THEN CHOOSE i \in 1..Len(list) :
            /\ list[i].name = name
            /\ \A j \in 1..(i - 1) : list[j].name # name
    ELSE 0

\* Array.prototype.splice(idx, 1), idx counted from 1.
Splice(list, idx) == SubSeq(list, 1, idx - 1) \o SubSeq(list, idx + 1, Len(list))

\* if (res.idx > -1) this.items.splice(res.idx, 1); return res.item;
PopAt(list, idx) ==
    IF idx > 0
    THEN [found |-> TRUE, item |-> list[idx], items |-> Splice(list, idx)]
    ELSE [found |-> FALSE, item |-> <<>>, items |-> list]

\* main.pop(name) on the list: the record found (found = FALSE: undefined)
\* and the list without it.
pop(list, name) == PopAt(list, IndexOfName(list, name))

---------------------------------------------------------------------------
(* parser.parseItems: the traits of item.special *)

\* String.prototype.includes
Includes(s, p) ==
    \E i \in 1..(Len(s) - Len(p) + 1) : SubSeq(s, i, i + Len(p) - 1) = p

\* String.prototype.indexOf(c) for a character c, counted from 1; 0: none.
IndexOfChar(s, c) ==
    IF \E i \in 1..Len(s) : s[i] = c
    THEN CHOOSE i \in 1..Len(s) : s[i] = c /\ \A j \in 1..(i - 1) : s[j] # c
    ELSE 0

RECURSIVE SplitAt(_, _, _)
\* String.prototype.split(c): the fields between the occurrences of c, the
\* first of which is at i (0: none).
SplitAt(s, c, i) ==
    IF i = 0 THEN <<s>>
    ELSE <<SubSeq(s, 1, i - 1)>>
         \o SplitAt(SubSeq(s, i + 1, Len(s)), c,
                    IndexOfChar(SubSeq(s, i + 1, Len(s)), c))

Split(s, c) == SplitAt(s, c, IndexOfChar(s, c))

Poison == <<"p", "o", "i", "s", "o", "n">>
Venom == <<"v", "e", "n", "o", "m">>

\* What an array element that is null (not a string) is written as here.
JsNull == "null"

\* The element Array.prototype.push stores for a string-or-null value.
Pushed(value) == IF value.tag = "string" THEN Str(value.s) ELSE JsNull

\* One element of item.special.  text is the string the code pushes; group
\* names the push statement that made it, which the code does not store.
Trait(group, text) == [group |-> group, text |-> text]

\* (value > 0 ? "+" : "") + value
Signed(value) == (IF value > 0 THEN "+" ELSE "") \o NumberToString(value)

\* const nature = ...; if (typeof(nature) !== "undefined") push(nature)
NatureTraits(attributes) ==
    LET nature == stringAttribute(attributes, "damagetype")
    IN  IF nature.tag # "undefined" THEN <<Trait("nature", Pushed(nature))>> ELSE <<>>

\* StatusTrait with the comma test first.
StatusTraitCommaFirst(statusAttack) ==
    IF Includes(statusAttack, <<",">>) THEN Str(Split(statusAttack, ",")[2])
    ELSE IF Includes(statusAttack, Poison) \/ Includes(statusAttack, Venom) THEN "poison"
    ELSE Str(statusAttack)

\* StatusTrait with all that follows the first comma, further commas included.
StatusTraitRest(statusAttack) ==
    IF Includes(statusAttack, Poison) \/ Includes(statusAttack, Venom) THEN "poison"
    ELSE IF Includes(statusAttack, <<",">>)
    THEN Str(SubSeq(statusAttack, IndexOfChar(statusAttack, ",") + 1, Len(statusAttack)))
    ELSE Str(statusAttack)

\* The trait pushed for a statusattack string.
StatusTrait(statusAttack) ==
    IF Includes(statusAttack, Poison) \/ Includes(statusAttack, Venom) THEN "poison"
    ELSE IF Includes(statusAttack, <<",">>) THEN Str(Split(statusAttack, ",")[2])
    ELSE Str(statusAttack)

\* const statusAttack = ...; if (typeof(statusAttack) !== "undefined") ...
\* (statusAttack is a string here: null is StatusThrows.)
StatusTraits(attributes) ==
    LET statusAttack == stringAttribute(attributes, "statusattack")
    IN  IF statusAttack.tag = "string"
        THEN <<Trait("status", StatusTrait(statusAttack.s))>>
        ELSE <<>>

\* statusAttack.includes(...) on null raises a TypeError.
StatusThrows(attributes) == stringAttribute(attributes, "statusattack").tag = "null"

\* Math.round(util.parseNumberDefault(sus value, 1) * 1000), an integer.
SusceptibilityPerMille(sus) ==
    MathRoundDiv(parseNumberDefault(sus.value, Whole(1)) * 1000, Scale)

\* SusceptibilityText without the inversion: value - 100 for 100 - value.
SusceptibilityTextNotInverted(type, value) ==
    IF value # Whole(100)
    THEN <<Trait("susceptibility", type \o " (" \o Signed(value - Whole(100)) \o "%)")>>
    ELSE <<>>

\* if (value !== 100) { value = 100 - value; push(type + " (" + ... + "%)"); }
SusceptibilityText(type, value) ==
    IF value # Whole(100)
    THEN <<Trait("susceptibility", type \o " (" \o Signed(Whole(100) - value) \o "%)")>>
    ELSE <<>>

\* The body of the loop over the susceptibility elements, for one of them.
SusceptibilityTrait(sus) ==
    SusceptibilityText(sus.type, SusceptibilityPerMille(sus) * (Scale \div 10))

RECURSIVE SusceptibilityTraits(_)
\* for (const sus of itemData.getElementsByTagName("susceptibility")) ...
SusceptibilityTraits(list) ==
    IF list = <<>> THEN <<>>
    ELSE SusceptibilityTrait(Head(list)) \o SusceptibilityTraits(Tail(list))

\* LifestealText without the explicit "+" of a positive value.
LifestealTextUnsigned(lifesteal) ==
    IF lifesteal # 0
    THEN <<Trait("lifesteal", "lifesteal (" \o NumberToString(lifesteal) \o "%)")>>
    ELSE <<>>

\* if (lifesteal !== 0) push("lifesteal (" + ... + "%)")
LifestealText(lifesteal) ==
    IF lifesteal # 0
    THEN <<Trait("lifesteal", "lifesteal (" \o Signed(lifesteal) \o "%)")>>
    ELSE <<>>

\* const lifesteal = this.numberAttribute(attributes, "lifesteal") * 100; ...
LifestealTraits(attributes) ==
    LifestealText(numberAttribute(attributes, "lifesteal", 0) * 100)

\* AtkTraits gated by the class of the item, not by the class selected.
AtkTraitsByItemClass(item, selected) ==
    IF ~isWeaponType(item.class) /\ ~isProjectileType(item.class) /\ item.atk # 0
    THEN <<Trait("atk", "atk=" \o NumberToString(item.atk))>>
    ELSE <<>>

AtkTraits(item, selected) ==
    IF ~isWeaponType(selected) /\ ~isProjectileType(selected) /\ item.atk # 0
    THEN <<Trait("atk", "atk=" \o NumberToString(item.atk))>>
    ELSE <<>>

DefTraits(item, selected) ==
    IF ~isArmorType(selected) /\ item.def # 0
    THEN <<Trait("def", "def (" \o NumberToString(item.def) \o ")")>>
    ELSE <<>>

\* RangeTraits with a range of zero shown as well.
RangeTraitsZeroShown(item, selected) ==
    IF ~isRangedType(selected) /\ ~isProjectileType(selected)
    THEN <<Trait("range", "range (" \o NumberToString(item.range) \o ")")>>
    ELSE <<>>

RangeTraits(item, selected) ==
    IF ~isRangedType(selected) /\ ~isProjectileType(selected) /\ item.range # 0
    THEN <<Trait("range", "range (" \o NumberToString(item.range) \o ")")>>
    ELSE <<>>

\* if (cures): a string that is not empty.
Truthy(value) == value.tag = "string" /\ value.s # <<>>

\* RegenTraits with "&&" for "||": regen and frequency only when both differ.
RegenTraitsBoth(consumeAmount, regen, frequency) ==
    IF frequency # Whole(1) /\ regen # consumeAmount
    THEN << Trait("regen", "regen (" \o NumberToString(regen) \o ")"),
            Trait("frequency", "frequency (" \o NumberToString(frequency) \o ")") >>
    ELSE <<>>

\* if (frequency !== 1 || regen !== consumeAmount) { push; push }
RegenTraits(consumeAmount, regen, frequency) ==
    IF frequency # Whole(1) \/ regen # consumeAmount
    THEN << Trait("regen", "regen (" \o NumberToString(regen) \o ")"),
            Trait("frequency", "frequency (" \o NumberToString(frequency) \o ")") >>
    ELSE <<>>

\* const regenType = consumeAmount > 0 ? "heal" : "hurt"; push(regenType + ...)
HealTraits(regenType, consumeAmount) ==
    << Trait(regenType, regenType \o " (" \o NumberToString(consumeAmount) \o ")") >>

\* if (consumeAmount !== 0) { const cures = ...; if (cures) ... else ... }
Consumable(consumeAmount, cures, regen, frequency) ==
    IF consumeAmount = 0 THEN <<>>
    ELSE IF Truthy(cures)
    THEN << Trait("cure", "cure (" \o Str(cures.s) \o ")"),
            Trait("immunity duration",
                  "immunity duration (" \o NumberToString(consumeAmount) \o ")") >>
    ELSE HealTraits(IF consumeAmount > 0 THEN "heal" ELSE "hurt", consumeAmount)
         \o RegenTraits(consumeAmount, regen, frequency)

\* const consumeAmount = this.numberAttribute(attributes, "amount"); ...
ConsumableTraits(attributes) ==
    Consumable(numberAttribute(attributes, "amount", 0),
               stringAttribute(attributes, "immunization"),
               numberAttribute(attributes, "regen", 0),
               numberAttribute(attributes, "frequency", 0))

\* Special with the lifesteal trait pushed after atk, def and range.
SpecialLifestealLate(itemData, item, selected) ==
    NatureTraits(itemData.attributes)
    \o StatusTraits(itemData.attributes)
    \o SusceptibilityTraits(itemData.susceptibility)
    \o AtkTraits(item, selected)
    \o DefTraits(item, selected)
    \o RangeTraits(item, selected)
    \o LifestealTraits(itemData.attributes)
    \o ConsumableTraits(itemData.attributes)

\* item.special as parseItems leaves it for the entry itemData, item being
\* the record in the making (after the merge) and selected main.className.
Special(itemData, item, selected) ==
    NatureTraits(itemData.attributes)
    \o StatusTraits(itemData.attributes)
    \o SusceptibilityTraits(itemData.susceptibility)
    \o LifestealTraits(itemData.attributes)
    \o AtkTraits(item, selected)
    \o DefTraits(item, selected)
    \o RangeTraits(item, selected)
    \o ConsumableTraits(itemData.attributes)

---------------------------------------------------------------------------
(* parser.parseItems: one record per raw entry *)

\* Math.round((atk / rate) * 100) / 100.  A division by zero gives Infinity,
\* -Infinity or (0 / 0) NaN, and Math.round and "/ 100" keep those.
Dpt(atk, rate) ==
    IF rate # 0 THEN Num(MathRoundDiv(atk * 100, rate) * (Scale \div 100))
    ELSE IF atk > 0 THEN PosInf
    ELSE IF atk < 0 THEN NegInf
    ELSE NaN

\* let item = {name: ..., class: ..., ..., range: ...}.  dpt and special are
\* assigned further down, before the record is used.
NewItem(itemData) ==
    [ name |-> itemData.name,
      class |-> itemData.class,
      image |-> itemData.subclass,
      value |-> IF itemData.value.tag = "undefined" THEN Text(<<"0">>) ELSE itemData.value,
      level |-> numberAttribute(itemData.attributes, "min_level", 0),
      rate |-> numberAttribute(itemData.attributes, "rate", 0),
      atk |-> numberAttribute(itemData.attributes, "atk", 0),
      def |-> numberAttribute(itemData.attributes, "def", 0),
      range |-> numberAttribute(itemData.attributes, "range", 0),
      dpt |-> NaN,
      special |-> <<>> ]

\* typeInfo.getAttribute("class") with no <type> child, and
\* attributes.getElementsByTagName(name) in numberAttribute with no
\* <attributes> child, are calls on undefined: a TypeError.
NewItemThrows(itemData) == itemData.missing # {}

NotFound(list) == [found |-> FALSE, item |-> <<>>, items |-> list]

\* let lrSword; if (item.name === "l hand sword") ... else if ...
PopOtherHand(list, name) ==
    IF name = "l hand sword" THEN pop(list, "r hand sword")
    ELSE IF name = "r hand sword" THEN pop(list, "l hand sword")
    ELSE NotFound(list)

\* Merge with "=" for "+=": the statistics of the first half are lost.
MergeOverwrites(lrSword, item) ==
    [lrSword EXCEPT !.name = "l/r hand swords",
                    !.atk = item.atk,
                    !.def = item.def]

\* Merge with the record of the entry as the record that survives.
MergeIntoSecond(lrSword, item) ==
    [item EXCEPT !.name = "l/r hand swords",
                 !.atk = lrSword.atk + @,
                 !.def = lrSword.def + @]

\* if (lrSword) { lrSword.name = ...; lrSword.atk += ...; ...; item = lrSword; }
Merge(lrSword, item) ==
    [lrSword EXCEPT !.name = "l/r hand swords",
                    !.atk = @ + item.atk,
                    !.def = @ + item.def]

\* Derive with dpt computed before the merge: a merged record keeps the dpt
\* of its first half.
DeriveBeforeMerge(item, itemData, selected) ==
    [item EXCEPT !.dpt = IF item.name = "l/r hand swords" THEN @
                         ELSE Dpt(item.atk, item.rate),
                 !.special = Special(itemData, item, selected)]

\* item.dpt = ...; item.special = []; ... the pushes
Derive(item, itemData, selected) ==
    [item EXCEPT !.dpt = Dpt(item.atk, item.rate),
                 !.special = Special(itemData, item, selected)]

\* Dropped with the flag read the wrong way round.
DroppedWhenShown(itemData, show) == itemData.unattainable /\ show

\* if (unattainable) { ...; if (!main.showUnattainable) continue; }
Dropped(itemData, show) == itemData.unattainable /\ ~show

\* EndOfPass with the pop undone when the record is dropped: the half that
\* was in main.items stays there.
EndOfPassKeepsHalf(st, itemData, list, merged, item, selected, show) ==
    [ items |-> IF Dropped(itemData, show) THEN st.items ELSE Append(list, item),
      log |-> IF itemData.unattainable
              THEN Append(st.log, [level |-> "debug",
                                   msg |-> "Unattainable: " \o item.name])
              ELSE st.log,
      iterations |-> Append(st.iterations,
                            [ itemData |-> itemData,
                              item |-> item,
                              merged |-> merged,
                              pushed |-> ~Dropped(itemData, show),
                              selected |-> selected ]),
      threw |-> FALSE ]

\* The end of a pass of the loop that raised nothing: the debug line of an
\* unattainable entry, and main.items.push(item) unless it is dropped.
\* list is main.items after the pop; merged tells that the pop found a record.
EndOfPass(st, itemData, list, merged, item, selected, show) ==
    [ items |-> IF Dropped(itemData, show) THEN list ELSE Append(list, item),
      log |-> IF itemData.unattainable
              THEN Append(st.log, [level |-> "debug",
                                   msg |-> "Unattainable: " \o item.name])
              ELSE st.log,
      iterations |-> Append(st.iterations,
                            [ itemData |-> itemData,
                              item |-> item,
                              merged |-> merged,
                              pushed |-> ~Dropped(itemData, show),
                              selected |-> selected ]),
      threw |-> FALSE ]

\* A pass of the loop from the merge on: lr is what the pop returned, fresh
\* the record made from the entry.
AfterPop(st, itemData, lr, fresh, selected, show) ==
    IF StatusThrows(itemData.attributes)
    THEN [st EXCEPT !.items = lr.items, !.threw = TRUE]
    ELSE EndOfPass(st, itemData, lr.items, lr.found,
                   Derive(IF lr.found THEN Merge(lr.item, fresh) ELSE fresh,
                          itemData, selected),
                   selected, show)

AfterNewItem(st, itemData, fresh, selected, show) ==
    AfterPop(st, itemData, PopOtherHand(st.items, fresh.name), fresh, selected, show)

\* One pass of the loop of parseItems, on st = [items, log, iterations,
\* threw]: the state the pass leaves.
ProcessEntry(st, itemData, selected, show) ==
    IF NewItemThrows(itemData)
    THEN [st EXCEPT !.threw = TRUE]
    ELSE AfterNewItem(st, itemData, NewItem(itemData), selected, show)

RECURSIVE ParseLoop(_, _, _, _)
\* for (let idx = 0; idx < items.length; idx++) ...: an exception ends it.
ParseLoop(st, content, selected, show) ==
    IF content = <<>> \/ st.threw THEN st
    ELSE ParseLoop(ProcessEntry(st, Head(content), selected, show),
                   Tail(content), selected, show)

\* } catch (e) { logger.error(e); }
Caught(st) ==
    IF st.threw
    THEN [st EXCEPT !.log = Append(@, [level |-> "error", msg |-> "TypeError"])]
    ELSE st

\* parser.parseItems(content) called from fetchText: the state it leaves.
\* An exception it raises is caught by fetchText, which logs it.
parseItems(content) ==
    Caught(ParseLoop([items |-> items, log |-> log, iterations |-> iterations,
                      threw |-> FALSE],
                     content, className, showUnattainable))

---------------------------------------------------------------------------
(* Inputs: the documents a run may be served *)

\* An <attributes> block with the children given by over.
Attributes(over) ==
    [n \in AttributeNames |-> IF n \in DOMAIN over THEN over[n] ELSE Undefined]

\* An <item> node.  missing names those of its children <type> and
\* <attributes> that it does not have.
Item(name, class, subclass, over, susceptibility, unattainable) ==
    [ name |-> name, class |-> class, subclass |-> subclass,
      value |-> Undefined,
      attributes |-> Attributes(over),
      susceptibility |-> susceptibility,
      unattainable |-> unattainable,
      missing |-> {} ]

\* The node without the children named in blocks.
Without(itemData, blocks) == [itemData EXCEPT !.missing = blocks]

\* The hand swords and a dagger, with the statistics of two variants each.
SwordStats ==
    { [name |-> "l hand sword",
       over |-> [atk |-> Text(<<"5">>), def |-> Text(<<"1">>), rate |-> Text(<<"2">>)]],
      [name |-> "l hand sword",
       over |-> [atk |-> Text(<<"3">>)]],
      [name |-> "r hand sword",
       over |-> [atk |-> Text(<<"7">>), def |-> Text(<<"2">>), rate |-> Text(<<"4">>)]],
      [name |-> "r hand sword",
       over |-> [atk |-> Text(<<"x">>), def |-> Text(<<"2">>), rate |-> Text(<<"0">>)]],
      [name |-> "dagger",
       over |-> [atk |-> Text(<<"5">>), rate |-> Text(<<"3">>)]] }

\* The entries of the documents of the population run: those, and a right
\* hand sword that cannot be had.
Entries ==
    { Item(s.name, "swords", "sword", s.over, <<>>, FALSE) : s \in SwordStats }
    \cup { Item(s.name, "swords", "sword", s.over, <<>>, TRUE) :
             s \in {t \in SwordStats : t.name = "r hand sword" /\ "rate" \in DOMAIN t.over
                                       /\ t.over.rate.s # <<"0">>} }

\* The most entries one population run is served, over all its documents.
MaxEntries == 3

\* The most fetches of class documents that fail in one population run.
MaxFetchFailures == 1

RECURSIVE SeqsOfLen(_, _)
\* The sequences of n elements of S.
SeqsOfLen(S, n) ==
    IF n = 0 THEN {<<>>}
    ELSE {Append(q, x) : q \in SeqsOfLen(S, n - 1), x \in S}

\* The documents of at most n entries.
Documents(n) == UNION {SeqsOfLen(Entries, k) : k \in 0..n}

\* How many fetches of class documents have failed: their error lines.
FetchFailures == Len(SelectSeq(log, LAMBDA l : l = [level |-> "error", msg |-> "fetch items"]))

\* data/conf/items.xml: the class of each <group uri="items/...xml"> line.
ItemsXml == <<"armors", "arrows", "dummy_weapons", "money", "ranged", "swords">>

\* params.get("class"): null when the URL has no class parameter.
NoParam == [tag |-> "null", s |-> ""]
Param(name) == [tag |-> "string", s |-> name]

\* The class parameter of the page's URL.
ClassParams == {NoParam, Param("swords"), Param("money"), Param("bogus")}

---------------------------------------------------------------------------
(* The population run: populate() *)

\* The state when populate() is called.  (fetchVersion, its first step, sets
\* only main.version and main.branch, which are part of the URLs fetched.)
Init ==
    /\ className = "weapons"
    /\ showUnattainable \in BOOLEAN
    /\ available = <<>>
    /\ items = <<>>
    /\ pending = <<>>
    /\ pc = "fetchClasses"
    /\ log = <<>>
    /\ iterations = <<>>

RECURSIVE Reverse(_)
Reverse(seq) == IF seq = <<>> THEN <<>> ELSE Append(Reverse(Tail(seq)), Head(seq))

\* ClassesToFetch with the classes of a group taken from the last to the first.
ClassesToFetchReversed(selected) ==
    IF Contains(getGroupNames, selected) THEN Reverse(groups(selected)) ELSE <<selected>>

\* The classes fetchItemsForClass fetches, in its order, for main.className.
ClassesToFetch(selected) ==
    IF Contains(getGroupNames, selected) THEN groups(selected) ELSE <<selected>>

\* NotExcluded with no class left out.
NotExcludedNone(content) == content

\* The lines of content that name a class not in classes.excludes.
NotExcluded(content) == SelectSeq(content, LAMBDA c : ~Contains(excludes, c))

\* parser.parseClasses(content), with the class parameter of the URL, and then
\* the start of fetchItemsForClass.
FetchClassesFrom(params) ==
    /\ pc = "fetchClasses"
    /\ \E param \in params :
        LET newAvailable == available \o NotExcluded(ItemsXml)
            classNames == getGroupNames \o newAvailable
            known == param.tag = "string" /\ Contains(classNames, param.s)
            \* main.selectClass(name): the options are classNames
            selected == IF known THEN param.s ELSE "weapons"
        IN  /\ available' = newAvailable
            /\ log' = IF ~known /\ param.tag = "string"
                      THEN Append(log, [level |-> "error",
                                        msg |-> "Unknown item class: " \o param.s])
                      ELSE log
            /\ className' = selected
            /\ pending' = ClassesToFetch(selected)
    /\ pc' = "fetchItems"
    /\ UNCHANGED <<showUnattainable, items, iterations>>

FetchClassesOk == FetchClassesFrom(ClassParams)

\* The fetch of data/conf/items.xml fails: fetchText logs the error, and
\* populate goes on with the class selected so far.
FetchClassesFail ==
    /\ pc = "fetchClasses"
    /\ log' = Append(log, [level |-> "error", msg |-> "fetch classes"])
    /\ pending' = ClassesToFetch(className)
    /\ pc' = "fetchItems"
    /\ UNCHANGED <<className, showUnattainable, available, items, iterations>>

\* After the fetch of a class document: on to the next, or to the display.
NextFetch ==
    /\ pending' = Tail(pending)
    /\ pc' = IF Tail(pending) = <<>> THEN "displayItems" ELSE "fetchItems"

\* The document of the class Head(pending) arrives: parser.parseItems(content).
FetchItemsFrom(documents) ==
    /\ pc = "fetchItems"
    /\ pending # <<>>
    /\ \E content \in documents :
        /\ \E st \in {parseItems(content)} :
               /\ items' = st.items
               /\ log' = st.log
               /\ iterations' = st.iterations
    /\ NextFetch
    /\ UNCHANGED <<className, showUnattainable, available>>

FetchItemsOk == FetchItemsFrom(Documents(MaxEntries - Len(iterations)))

\* FetchItemsFail with the failure ending the loop over the classes: the
\* classes that follow are not fetched.
FetchItemsFailEndsLoop ==
    /\ pc = "fetchItems"
    /\ pending # <<>>
    /\ FetchFailures < MaxFetchFailures
    /\ log' = Append(log, [level |-> "error", msg |-> "fetch items"])
    /\ pending' = <<>>
    /\ pc' = "displayItems"
    /\ UNCHANGED <<className, showUnattainable, available, items, iterations>>

\* The fetch of the document of the class Head(pending) fails.
FetchItemsFail ==
    /\ pc = "fetchItems"
    /\ pending # <<>>
    /\ FetchFailures < MaxFetchFailures
    /\ log' = Append(log, [level |-> "error", msg |-> "fetch items"])
    /\ NextFetch
    /\ UNCHANGED <<className, showUnattainable, available, items, iterations>>

\* main.displayItems(): the rows are made from a sorted copy of main.items.
DisplayItems ==
    /\ pc = "displayItems"
    /\ pc' = "done"
    /\ UNCHANGED <<className, showUnattainable, available, items, pending, log, iterations>>

Next ==
    \/ FetchClassesOk
    \/ FetchClassesFail
    \/ FetchItemsOk
    \/ FetchItemsFail
    \/ DisplayItems

Spec == Init /\ [][Next]_vars

\* The steps of Next but for the arrival of a document that holds entries.
\* One of them can be taken exactly where one of Next can, and each step of
\* Next shortens what is left of the run.
Settles ==
    \/ FetchClassesOk
    \/ FetchClassesFail
    \/ FetchItemsFrom({<<>>})
    \/ FetchItemsFail
    \/ DisplayItems

\* Every fetch that populate awaits settles, with a response or with an
\* error, and the event loop then runs what awaited it: the run does not stop
\* while it has a step to take.  (As the steps of Next left out of Settles
\* move the run on as well, this is the weak fairness of Next.)
FairSpec == Spec /\ WF_vars(Settles)

---------------------------------------------------------------------------
(* The traits of one entry: parseItems on a document of one entry, for every
   combination of the attributes the traits are made from *)

\* The most <susceptibility> elements of an entry.
MaxSusceptibilities == 2

Susceptibility(type, value) == [type |-> type, value |-> value]

\* raw 0.8: +20%; 1.0: none; 1.25: -25%; 0.875: +12.5%; 0.9996 rounds to
\* 100%: none; no value attribute: 1, none.
SusceptibilityChoices ==
    { Susceptibility("fire", Text(<<"0", ".", "8">>)),
      Susceptibility("ice", Text(<<"1", ".", "0">>)),
      Susceptibility("dark", Text(<<"1", ".", "2", "5">>)),
      Susceptibility("light", Text(<<"0", ".", "8", "7", "5">>)),
      Susceptibility("fire", Text(<<"0", ".", "9", "9", "9", "6">>)),
      Susceptibility("air", Null) }

SusceptibilityLists == UNION {SeqsOfLen(SusceptibilityChoices, k) : k \in 0..MaxSusceptibilities}

TwoSusceptibilities ==
    << Susceptibility("fire", Text(<<"0", ".", "8">>)), Susceptibility("ice", Text(<<"1", ".", "2", "5">>)) >>

\* An entry that is no hand sword, with the children over of <attributes>.
Plain(over, susceptibility) == Item("item", "misc", "item", over, susceptibility, FALSE)

\* The children of <attributes> named in names, the others left out.
Only(over, names) == [n \in (DOMAIN over) \cap names |-> over[n]]

Present(over) == {n \in DOMAIN over : over[n].tag # "undefined"}

\* Every trait present or absent, with one value each.
PresenceEntries ==
    { Plain(Only(over, Present(over)), sus) :
        over \in [ damagetype : {Undefined, Text(<<"f", "i", "r", "e">>), Text(<<"p", "o", "i", "s", "o", "n">>)},
                   statusattack : {Undefined, Text(<<"f", "i", "r", "e", ",", "i", "c", "e">>), Text(<<"p", "o", "i", "s", "o", "n", ",", "w", "e", "a", "k">>)},
                   lifesteal : {Undefined, Text(<<"0", ".", "1">>)},
                   atk : {Undefined, Text(<<"5">>)},
                   def : {Undefined, Text(<<"3">>)},
                   range : {Undefined, Text(<<"2">>)},
                   amount : {Undefined, Text(<<"5", "0">>), Text(<<"-", "1", "0">>)},
                   immunization : {Undefined, Text(<<"p", "o", "i", "s", "o", "n">>)},
                   regen : {Undefined, Text(<<"5", "0">>)},
                   frequency : {Undefined, Text(<<"1">>)} ],
        sus \in {<<>>, TwoSusceptibilities} }

\* The values of statusattack.
StatusEntries ==
    { Plain([statusattack |-> v], <<>>) :
        v \in {Text(<<"p", "o", "i", "s", "o", "n", ",", "w", "e", "a", "k">>),
              Text(<<"w", "e", "a", "k", ",", "p", "o", "i", "s", "o", "n">>),
              Text(<<"f", "i", "r", "e", ",", "i", "c", "e">>),
              Text(<<"s", "h", "o", "c", "k">>),
              Text(<<"v", "e", "n", "o", "m">>),
              Text(<<"a", "n", "t", "i", "v", "e", "n", "o", "m">>),
              Text(<<"a", ",", "b", ",", "c">>),
              Text(<<"f", "i", "r", "e", ",">>),
              Text(<<>>),
              Text(<<"i", "c", "e", ",", ",", "x">>)} }

\* The susceptibility elements.
SusceptibilityEntries ==
    { Plain(Only(over, Present(over)), sus) :
        over \in [damagetype : {Undefined, Text(<<"f", "i", "r", "e">>)}, lifesteal : {Undefined, Text(<<"0", ".", "1">>)}],
        sus \in SusceptibilityLists }

\* The values of atk, def and range, for an entry of each kind of class.
StatEntries ==
    { Item("item", class, "item", Only(over, Present(over)), <<>>, FALSE) :
        class \in {"misc", "swords", "ranged", "armors", "arrows"},
        over \in [ atk : {Undefined, Text(<<"5">>), Text(<<"0">>), Text(<<"-", "2">>), Text(<<"1", ".", "5">>), Text(<<"a", "b", "c">>)},
                   def : {Undefined, Text(<<"3">>), Text(<<"0">>)},
                   range : {Undefined, Text(<<"2">>), Text(<<"0">>)} ] }

\* The attributes of a consumable.
ConsumableEntries ==
    { Plain(Only(over, Present(over)), <<>>) :
        over \in [ amount : {Undefined, Text(<<"0">>), Text(<<"5", "0">>), Text(<<"-", "1", "0">>)},
                   immunization : {Undefined, Text(<<>>), Text(<<"p", "o", "i", "s", "o", "n">>)},
                   regen : {Undefined, Text(<<"0">>), Text(<<"5", "0">>)},
                   frequency : {Undefined, Text(<<"0">>), Text(<<"1">>), Text(<<"2">>)} ] }

\* The values of lifesteal.
LifestealEntries ==
    { Plain(Only(over, Present(over)), <<>>) :
        over \in [ lifesteal : {Undefined, Null, Text(<<"0">>), Text(<<"0", ".", "1">>), Text(<<"-", "0", ".", "1">>),
                                Text(<<"0", ".", "1", "2", "5">>), Text(<<"1">>), Text(<<"a", "b", "c">>)},
                   atk : {Undefined, Text(<<"5">>)} ] }

\* damagetype and statusattack absent, or present with the empty string.
EmptyStringEntries ==
    { Plain(Only(over, Present(over)), <<>>) :
        over \in [ damagetype : {Undefined, Text(<<>>)},
                   statusattack : {Undefined, Text(<<>>)} ] }

\* Entries that lack something: the <attributes> block, the <type>
\* descriptor, or the value attribute of statusattack or of damagetype.
DegenerateEntries ==
    { Without(Plain(<<>>, <<>>), {"attributes"}),
      Without(Plain(<<>>, <<>>), {"type"}),
      Plain([statusattack |-> Null], <<>>),
      Plain([damagetype |-> Null], <<>>) }

\* A bow: an entry of class "ranged" with atk and rate and nothing else.
WoodenBow ==
    Item("wooden bow", "ranged", "wooden_bow",
         [atk |-> Text(<<"4">>), rate |-> Text(<<"2">>)], <<>>, FALSE)

TraitEntries ==
    PresenceEntries \cup StatusEntries \cup SusceptibilityEntries
    \cup StatEntries \cup ConsumableEntries \cup LifestealEntries
    \cup EmptyStringEntries \cup DegenerateEntries \cup {WoodenBow}

\* The class parameter of the page's URL: a name of each kind the traits
\* depend on (a group, a class of a group, the ranged class, another class).
TraitClassParams ==
    { NoParam, Param("swords"), Param("ranged"), Param("protective"), Param("armors"),
      Param("projectiles"), Param("arrows"), Param("money"), Param("dummy_weapons") }

\* populate() is called with the unattainable parameter not set.
InitTraits == Init /\ showUnattainable = FALSE

FetchTraitClasses == FetchClassesFrom(TraitClassParams)

\* The first class document arrives and holds one entry.
FetchTraitItem ==
    /\ pending = ClassesToFetch(className)
    /\ FetchItemsFrom({<<itemData>> : itemData \in TraitEntries})

NextTraits ==
    \/ FetchTraitClasses
    \/ FetchTraitItem

SpecTraits == InitTraits /\ [][NextTraits]_vars

---------------------------------------------------------------------------
(* The classification predicates of classes, applied to names *)

\* The most names classified in one behaviour.
MaxClassified == 2

\* The names classified: the groups, their classes, other classes of
\* items.xml and strings that are no class.
ClassifiedNames ==
    { "weapons", "protective", "projectiles",
      "axes", "clubs", "ranged", "swords", "whips",
      "armors", "boots", "cloaks", "helmets", "legs", "shields",
      "arrows", "missiles",
      "money", "dummy_weapons", "rings", "", "Weapons", "sword", "range",
      "arrow", "armor" }

\* What the four predicates return for name.
Classification(name) ==
    [ name |-> name,
      weapon |-> isWeaponType(name),
      armor |-> isArmorType(name),
      ranged |-> isRangedType(name),
      projectile |-> isProjectileType(name) ]

\* The names to classify are in pending; nothing else has happened.
InitClassify ==
    /\ className = "weapons"
    /\ showUnattainable = FALSE
    /\ available = <<>>
    /\ items = <<>>
    /\ pending \in UNION {SeqsOfLen(ClassifiedNames, k) : k \in 0..MaxClassified}
    /\ pc = "classify"
    /\ log = <<>>
    /\ iterations = <<>>

\* The four predicates are called with the next name; log keeps what they
\* returned.  They read classes.groups only and assign nothing.
Classify ==
    /\ pc = "classify"
    /\ pending # <<>>
    /\ log' = Append(log, Classification(Head(pending)))
    /\ pending' = Tail(pending)
    /\ UNCHANGED <<className, showUnattainable, available, items, pc, iterations>>

NextClassify == Classify

SpecClassify == InitClassify /\ [][NextClassify]_vars

---------------------------------------------------------------------------
(* parser.numberAttribute and parser.stringAttribute, applied to a bag *)

\* The third argument of a call of numberAttribute: given, or left out.
NoDefault == [given |-> FALSE, v |-> 0]
Default(v) == [given |-> TRUE, v |-> v]

\* numberAttribute(attributes, name, def=0): def is 0 when it is left out.
DefaultOf(def) == IF def.given THEN def.v ELSE 0

\* The value attributes of the <atk> child of the bags: none, strings that
\* parse, strings that do not, and strings that parse to an infinity.
ExtractedValues ==
    { Null, Text(<<"5">>),
      Text(<<"0">>),
      Text(<<"-", ".", "5">>),
      Text(<<"1", "2", "a", "b", "c">>),
      Text(<<" ", "7">>),
      Text(<<"a", "b", "c">>),
      Text(<<>>),
      Text(<<"I", "n", "f", "i", "n", "i", "t", "y">>),
      Text(<<"-", "I", "n", "f", "i", "n", "i", "t", "y">>),
      Text(<<".">>) }

\* The calls: on a bag with no child at all or with an <atk> child, for the
\* name "atk" or "def", with a default or without.
ExtractCalls ==
    { [attributes |-> attributes, name |-> name, def |-> def] :
        attributes \in {NoAttributes} \cup {Attributes([atk |-> v]) : v \in ExtractedValues},
        name \in {"atk", "def"},
        def \in {NoDefault, Default(Whole(1)), Default(-Whole(2)), Default(0)} }

\* What the two functions return for a call.
Extraction(call) ==
    [ call |-> call,
      number |-> numberAttribute(call.attributes, call.name, DefaultOf(call.def)),
      string |-> stringAttribute(call.attributes, call.name) ]

\* The call to make is in pending; nothing else has happened.
InitExtract ==
    /\ className = "weapons"
    /\ showUnattainable = FALSE
    /\ available = <<>>
    /\ items = <<>>
    /\ pending \in {<<call>> : call \in ExtractCalls}
    /\ pc = "extract"
    /\ log = <<>>
    /\ iterations = <<>>

\* The two functions are called; log keeps what they returned.  They assign
\* to nothing but their own locals: the bag and main are as before.
Extract ==
    /\ pc = "extract"
    /\ log' = Append(log, Extraction(pending[1]))
    /\ pc' = "done"
    /\ UNCHANGED <<className, showUnattainable, available, items, pending, iterations>>

NextExtract == Extract

SpecExtract == InitExtract /\ [][NextExtract]_vars

---------------------------------------------------------------------------
(* The two halves of the hand swords: parseItems on a first and a second
   entry, each a hand-sword half, in one document or in two *)

\* The children of <attributes> of a half: atk and rate, with or without def,
\* range and damagetype; a half of rate 3 has a min_level as well.
HalfBags ==
    { Only(over, Present(over)) :
        over \in { o \in [ atk : {Text(<<"5">>), Text(<<"7">>)},
                          def : {Undefined, Text(<<"1">>)},
                          rate : {Text(<<"2">>), Text(<<"3">>)},
                          range : {Undefined, Text(<<"2">>)},
                          damagetype : {Undefined, Text(<<"f", "i", "r", "e">>)},
                          min_level : {Undefined, Text(<<"1", "0">>)} ] :
                      (o.min_level.tag = "undefined") <=> (o.rate = Text(<<"2">>)) } }

\* A hand-sword half.  The halves differ in class, image and value; a half
\* with a damagetype has a susceptibility element as well.
Half(name, over, unattainable) ==
    [ Item(name,
           IF name = "l hand sword" THEN "swords" ELSE "clubs",
           IF name = "l hand sword" THEN "l_hand_sword" ELSE "r_hand_sword",
           over,
           IF "damagetype" \in DOMAIN over
           THEN <<Susceptibility("ice", Text(<<"0", ".", "8">>))>> ELSE <<>>,
           unattainable)
      EXCEPT !.value = IF name = "l hand sword" THEN Text(<<"1", "0", "0">>) ELSE Undefined ]

\* The halves that carry the unattainable marker.
MarkedBags ==
    { [atk |-> Text(<<"5">>), rate |-> Text(<<"2">>)],
      [atk |-> Text(<<"7">>), def |-> Text(<<"1">>), rate |-> Text(<<"3">>),
       range |-> Text(<<"2">>)] }

HalfEntries ==
    { Half(name, over, FALSE) : name \in {"l hand sword", "r hand sword"}, over \in HalfBags }
    \cup { Half(name, over, TRUE) : name \in {"l hand sword", "r hand sword"}, over \in MarkedBags }

\* The class parameter of the page's URL: none (the group "weapons"), a class
\* of the group, a class that is no weapon.
HalfClassParams == {NoParam, Param("swords"), Param("money")}

FetchHalfClasses == FetchClassesFrom(HalfClassParams)

\* The first document arrives and holds both entries.
FetchBothHalves ==
    /\ iterations = <<>>
    /\ FetchItemsFrom({<<first, second>> : first \in HalfEntries, second \in HalfEntries})

\* The first document arrives and holds one entry.
FetchFirstHalf ==
    /\ iterations = <<>>
    /\ FetchItemsFrom({<<first>> : first \in HalfEntries})

\* The document of the next class arrives and holds the other entry.
FetchSecondHalf ==
    /\ Len(iterations) = 1
    /\ FetchItemsFrom({<<second>> : second \in HalfEntries})

NextHalves ==
    \/ FetchHalfClasses
    \/ FetchBothHalves
    \/ FetchFirstHalf
    \/ FetchSecondHalf

SpecHalves == Init /\ [][NextHalves]_vars

---------------------------------------------------------------------------
(* main.getSorted: the copy of main.items that displayItems shows *)

\* The most entries of the document whose records are sorted.
MaxSorted == 3

Letters ==
    << "a", "b", "c", "d", "e", "f", "g", "h", "i", "j", "k", "l", "m",
       "n", "o", "p", "q", "r", "s", "t", "u", "v", "w", "x", "y", "z" >>

\* The UTF-16 code unit of a character of the names of the model.
CharCode(c) ==
    CASE c = " " -> 32
      [] c = "/" -> 47
      [] OTHER -> 96 + (CHOOSE k \in 1..Len(Letters) : Letters[k] = c)

\* The characters of the names of the records sorted.
Chars(name) ==
    CASE name = "axe" -> <<"a", "x", "e">>
      [] name = "buckler" -> <<"b", "u", "c", "k", "l", "e", "r">>
      [] name = "dagger" -> <<"d", "a", "g", "g", "e", "r">>
      [] name = "l hand sword" -> <<"l", " ", "h", "a", "n", "d", " ", "s", "w", "o", "r", "d">>
      [] name = "r hand sword" -> <<"r", " ", "h", "a", "n", "d", " ", "s", "w", "o", "r", "d">>
      [] name = "l/r hand swords" ->
           <<"l", "/", "r", " ", "h", "a", "n", "d", " ", "s", "w", "o", "r", "d", "s">>

RECURSIVE StringLess(_, _)
\* a < b for two strings: the order of their code units.
StringLess(a, b) ==
    IF b = <<>> THEN FALSE
    ELSE IF a = <<>> THEN TRUE
    ELSE IF CharCode(Head(a)) # CharCode(Head(b)) THEN CharCode(Head(a)) < CharCode(Head(b))
    ELSE StringLess(Tail(a), Tail(b))

\* a < b for two Numbers: false when either is NaN.
NumberLess(a, b) ==
    IF a.kind = "nan" \/ b.kind = "nan" THEN FALSE
    ELSE IF a.kind = "inf" THEN a.v < 0 /\ ~(b.kind = "inf" /\ b.v < 0)
    ELSE IF b.kind = "inf" THEN b.v > 0
    ELSE a.v < b.v

\* obj[this.sortBy]: a string, a Number, or undefined for a key the records
\* do not have.
SortValue(obj, sortBy) ==
    CASE sortBy = "name" -> [type |-> "string", chars |-> Chars(obj.name), n |-> NaN]
      [] sortBy = "atk" -> [type |-> "number", chars |-> <<>>, n |-> Num(obj.atk)]
      [] sortBy = "dpt" -> [type |-> "number", chars |-> <<>>, n |-> obj.dpt]
      [] OTHER -> [type |-> "undefined", chars |-> <<>>, n |-> NaN]

\* valueA < valueB.  undefined is converted to NaN.
LessThan(valueA, valueB) ==
    IF valueA.type = "string" /\ valueB.type = "string"
    THEN StringLess(valueA.chars, valueB.chars)
    ELSE NumberLess(valueA.n, valueB.n)

\* The function given to items.sort.
compare(objA, objB, sortBy, descending) ==
    IF LessThan(SortValue(objA, sortBy), SortValue(objB, sortBy))
    THEN (IF descending THEN 1 ELSE -1)
    ELSE IF LessThan(SortValue(objB, sortBy), SortValue(objA, sortBy))
    THEN (IF descending THEN -1 ELSE 1)
    ELSE 0

\* compare is a consistent comparison function for the elements of list, as
\* Array.prototype.sort requires: "equal" is an equivalence, "less" and
\* "greater" are transitive.
Consistent(list, sortBy, descending) ==
    \A i, j, k \in 1..Len(list) :
        /\ compare(list[i], list[i], sortBy, descending) = 0
        /\ ( /\ compare(list[i], list[j], sortBy, descending) = 0
              /\ compare(list[j], list[k], sortBy, descending) = 0 )
           => compare(list[i], list[k], sortBy, descending) = 0
        /\ ( /\ compare(list[i], list[j], sortBy, descending) < 0
              /\ compare(list[j], list[k], sortBy, descending) < 0 )
           => compare(list[i], list[k], sortBy, descending) < 0
        /\ ( /\ compare(list[i], list[j], sortBy, descending) > 0
              /\ compare(list[j], list[k], sortBy, descending) > 0 )
           => compare(list[i], list[k], sortBy, descending) > 0

RECURSIVE InsertSorted(_, _, _, _)
\* sorted with obj put after the elements that do not come after it.
InsertSorted(sorted, obj, sortBy, descending) ==
    IF sorted = <<>> THEN <<obj>>
    ELSE IF compare(obj, Head(sorted), sortBy, descending) < 0 THEN <<obj>> \o sorted
    ELSE <<Head(sorted)>> \o InsertSorted(Tail(sorted), obj, sortBy, descending)

RECURSIVE StableSort(_, _, _)
\* The order Array.prototype.sort gives with a consistent comparison
\* function: that of the function, equal elements in their order in list.
StableSort(list, sortBy, descending) ==
    IF list = <<>> THEN <<>>
    ELSE InsertSorted(StableSort(SubSeq(list, 1, Len(list) - 1), sortBy, descending),
                      list[Len(list)], sortBy, descending)

\* The orders of the elements of list.
Orders(list) ==
    { [k \in 1..Len(list) |-> list[f[k]]] :
        f \in {g \in [1..Len(list) -> 1..Len(list)] :
                 \A a, b \in 1..Len(list) : a # b => g[a] # g[b]} }

\* main.getSorted(): what it may return.  With a comparison function that is
\* not consistent the order Array.prototype.sort leaves is defined by the
\* implementation: any order of the elements.
getSorted(list, sortBy, descending) ==
    IF Consistent(list, sortBy, descending)
    THEN {StableSort(list, sortBy, descending)}
    ELSE Orders(list)

\* The entries sorted: dpt 2.5, NaN (neither atk nor rate), 1.67, 1.5, 1.75.
SortEntries ==
    { Item("axe", "axes", "axe", [atk |-> Text(<<"5">>), rate |-> Text(<<"2">>)], <<>>, FALSE),
      Item("buckler", "shields", "buckler", [def |-> Text(<<"3">>)], <<>>, FALSE),
      Item("dagger", "swords", "dagger", [atk |-> Text(<<"5">>), rate |-> Text(<<"3">>)], <<>>, FALSE),
      Item("l hand sword", "swords", "l_hand_sword",
           [atk |-> Text(<<"3">>), rate |-> Text(<<"2">>)], <<>>, FALSE),
      Item("r hand sword", "swords", "r_hand_sword",
           [atk |-> Text(<<"7">>), rate |-> Text(<<"4">>)], <<>>, FALSE) }

\* main.items after parseItems on a document of SortEntries.
ParsedItems(content) ==
    ParseLoop([items |-> <<>>, log |-> <<>>, iterations |-> <<>>, threw |-> FALSE],
              content, "weapons", FALSE).items

\* main.sortBy and main.descending, from the parameters of the URL.
SortCalls == [sortBy : {"name", "atk", "dpt", "color"}, descending : BOOLEAN]

\* The items are loaded and displayItems is about to call getSorted; the
\* values of main.sortBy and main.descending are in pending.
InitSort ==
    /\ className = "weapons"
    /\ showUnattainable = FALSE
    /\ available = <<>>
    /\ items \in {ParsedItems(content) :
                    content \in UNION {SeqsOfLen(SortEntries, k) : k \in 0..MaxSorted}}
    /\ pending \in {<<call>> : call \in SortCalls}
    /\ pc = "displayItems"
    /\ log = <<>>
    /\ iterations = <<>>

\* const items = [...this.items]; items.sort(...); return items: the copy is
\* sorted, main.items is not assigned.  log keeps what was returned, and the
\* list that was copied.
GetSorted ==
    /\ pc = "displayItems"
    /\ \E rows \in getSorted(items, pending[1].sortBy, pending[1].descending) :
           log' = Append(log, [given |-> items, rows |-> rows])
    /\ pc' = "done"
    /\ UNCHANGED <<className, showUnattainable, available, items, pending, iterations>>

NextSort == GetSorted

SpecSort == InitSort /\ [][NextSort]_vars

---------------------------------------------------------------------------
(* src/js/items.js, the version that fetches the classes of "all" at once.
   main.data["class"] is className ("" while it is undefined), the options
   of the select after "all" are available, main.data["weapons"] is items,
   the fetches in flight are pending, the rows of the table and the messages
   are log, and iterations keeps the calls of getWeapons made so far *)

\* The most entries of a class document.
MaxWeapons == 2

\* const includes = [...]: the weapon classes that will be parsed.
includes == <<"all", "axes", "clubs", "ranged", "swords", "whips">>

\* parser.getClasses: the classes of items.xml that are in includes.
Included(content) == SelectSeq(content, LAMBDA c : Contains(includes, c))

\* properties.special of getWeapons.
WeaponSpecial(attributes) ==
    NatureTraits(attributes)
    \o StatusTraits(attributes)
    \o (IF numberAttribute(attributes, "lifesteal", 0) # 0
        THEN <<Trait("lifesteal", "lifesteal=" \o NumberToString(numberAttribute(attributes, "lifesteal", 0)))>>
        ELSE <<>>)
    \o (IF numberAttribute(attributes, "def", 0) # 0
        THEN <<Trait("def", "def=" \o NumberToString(numberAttribute(attributes, "def", 0)))>>
        ELSE <<>>)
    \o (IF numberAttribute(attributes, "range", 0) # 0
        THEN <<Trait("range", "range=" \o NumberToString(numberAttribute(attributes, "range", 0)))>>
        ELSE <<>>)

\* The properties getWeapons makes for an item, with the name that is their
\* key in weapons (getSorted stores it in them as well).
WeaponProperties(item) ==
    [ name |-> item.name,
      class |-> item.class,
      image |-> item.subclass,
      level |-> numberAttribute(item.attributes, "min_level", 0),
      rate |-> numberAttribute(item.attributes, "rate", 0),
      atk |-> numberAttribute(item.attributes, "atk", 0),
      dpt |-> Dpt(numberAttribute(item.attributes, "atk", 0),
                  numberAttribute(item.attributes, "rate", 0)),
      special |-> WeaponSpecial(item.attributes) ]

\* weapons[name] = properties: a name already there keeps its place and
\* gets the new properties.
PutWeapon(weapons, properties) ==
    IF \E k \in 1..Len(weapons) : weapons[k].name = properties.name
    THEN [k \in 1..Len(weapons) |->
            IF weapons[k].name = properties.name THEN properties ELSE weapons[k]]
    ELSE Append(weapons, properties)

RECURSIVE WeaponsOf(_)
\* The object weapons that getWeapons builds from the items of a document,
\* as the list of its values in the order of its keys.
WeaponsOf(content) ==
    IF content = <<>> THEN <<>>
    ELSE PutWeapon(WeaponsOf(SubSeq(content, 1, Len(content) - 1)),
                   WeaponProperties(content[Len(content)]))

RECURSIVE getWeaponsInto(_, _)
\* getWeapons with the items of the document added to main.data["weapons"].
getWeaponsInto(weapons, content) ==
    IF content = <<>> THEN weapons
    ELSE PutWeapon(getWeaponsInto(weapons, SubSeq(content, 1, Len(content) - 1)),
                   WeaponProperties(content[Len(content)]))

\* What getWeapons assigns to main.data["weapons"], which held weapons: the
\* object it has built from the document, starting from an empty one.
getWeapons(weapons, content) == WeaponsOf(content)

\* The entries of the class documents: dpt 2.5, 1.67 and, with neither atk
\* nor rate, NaN.
WeaponEntries ==
    { Item("axe", "axes", "axe", [atk |-> Text(<<"5">>), rate |-> Text(<<"2">>)], <<>>, FALSE),
      Item("dagger", "swords", "dagger", [atk |-> Text(<<"5">>), rate |-> Text(<<"3">>)], <<>>, FALSE),
      Item("buckler", "shields", "buckler", [def |-> Text(<<"3">>)], <<>>, FALSE) }

WeaponDocuments == UNION {SeqsOfLen(WeaponEntries, k) : k \in 0..MaxWeapons}

\* The class parameter of the page's URL.
WeaponClassParams == {NoParam, Param("swords"), Param("clubs"), Param("bogus")}

\* The sort and descending parameters of the page's URL.
SortQueries ==
    [sort : {NoParam, Param("name"), Param("atk"), Param("dpt")}, descending : BOOLEAN]

\* main.data["sort"] || "name" and main.data["descending"], which populate
\* sets only when the URL has a sort parameter.
SortOfQuery(query) ==
    IF query.sort.tag = "string" /\ query.sort.s # ""
    THEN [sortBy |-> query.sort.s, descending |-> query.descending]
    ELSE [sortBy |-> "name", descending |-> FALSE]

\* The sort and the order of the page.  They are set before any fetch and
\* never change: they are chosen when getWeapons first reads them, and the
\* calls that follow read what was chosen.
SortsOfPage ==
    IF iterations = <<>> THEN {SortOfQuery(query) : query \in SortQueries}
    ELSE {[sortBy |-> iterations[1].sortBy, descending |-> iterations[1].descending]}

\* The state when main.populate is called.
InitWeapons ==
    /\ className = ""
    /\ showUnattainable = FALSE
    /\ available = <<>>
    /\ items = <<>>
    /\ pending = <<>>
    /\ pc = "fetchClasses"
    /\ log = <<>>
    /\ iterations = <<>>

\* remote.fetchWeaponsForClass(): the fetches it starts, none of them awaited.
\* For "all" they are those of the options after the first, which is "all".
fetchWeaponsForClass(selected, options) ==
    IF selected # "all" THEN <<selected>> ELSE Tail(options)

\* parser.getClasses(content), called with the content of items.xml, then
\* main.selectClass and, the class having changed, fetchWeaponsForClass.
GetClasses ==
    /\ pc = "fetchClasses"
    /\ \E param \in WeaponClassParams :
        LET options == <<"all">> \o Included(ItemsXml)
            known == param.tag = "string" /\ Contains(includes, param.s)
            name == IF known THEN param.s ELSE "all"
            selected == IF Contains(options, name) THEN name ELSE className
        IN  /\ available' = Tail(options)
            /\ log' = IF ~known /\ param.tag = "string"
                      THEN Append(log, [level |-> "error",
                                        msg |-> "Unknown weapon class: " \o param.s])
                      ELSE log
            /\ className' = selected
            /\ pending' = IF selected # className
                          THEN fetchWeaponsForClass(selected, options) ELSE <<>>
            /\ pc' = IF selected # className /\ fetchWeaponsForClass(selected, options) # <<>>
                     THEN "fetching" ELSE "done"
    /\ UNCHANGED <<showUnattainable, items, iterations>>

\* The fetch of items.xml fails: fetchText logs the error, nothing is called.
GetClassesFail ==
    /\ pc = "fetchClasses"
    /\ log' = Append(log, [level |-> "error", msg |-> "fetch classes"])
    /\ pc' = "done"
    /\ UNCHANGED <<className, showUnattainable, available, items, pending, iterations>>

\* pending without its k-th fetch.
Settled(k) == SubSeq(pending, 1, k - 1) \o SubSeq(pending, k + 1, Len(pending))

\* The rows loadWeapons appends to the table.
Rendered(rows) == [k \in 1..Len(rows) |-> [level |-> "row", msg |-> rows[k]]]

\* How many fetches of class documents have failed.
WeaponFetchFailures ==
    Len(SelectSeq(log, LAMBDA l : l.level = "error" /\ l.msg = "fetch items"))

\* The response of one of the fetches in flight, whichever, arrives:
\* parser.getWeapons(content), with main.loadWeapons() as its last statement.
GetWeapons ==
    /\ pc = "fetching"
    /\ \E k \in 1..Len(pending), content \in WeaponDocuments, sort \in SortsOfPage :
        /\ items' = getWeapons(items, content)
        /\ \E rows \in getSorted(getWeapons(items, content), sort.sortBy, sort.descending) :
               log' = log \o Rendered(rows)
        /\ iterations' = Append(iterations,
                                [ class |-> pending[k], content |-> content,
                                  sortBy |-> sort.sortBy, descending |-> sort.descending ])
        /\ pending' = Settled(k)
        /\ pc' = IF Settled(k) = <<>> THEN "done" ELSE "fetching"
    /\ UNCHANGED <<className, showUnattainable, available>>

\* One of the fetches in flight fails: fetchText logs the error.
GetWeaponsFail ==
    /\ pc = "fetching"
    /\ WeaponFetchFailures < MaxFetchFailures
    /\ \E k \in 1..Len(pending) :
        /\ pending' = Settled(k)
        /\ pc' = IF Settled(k) = <<>> THEN "done" ELSE "fetching"
    /\ log' = Append(log, [level |-> "error", msg |-> "fetch items"])
    /\ UNCHANGED <<className, showUnattainable, available, items, iterations>>

NextWeapons ==
    \/ GetClasses
    \/ GetClassesFail
    \/ GetWeapons
    \/ GetWeaponsFail

SpecWeapons == InitWeapons /\ [][NextWeapons]_vars

---------------------------------------------------------------------------
(* Properties *)

\* The raw entries processed so far, in their order.
Raw == [i \in 1..Len(iterations) |-> iterations[i].itemData]

HandSwordNames == {"l hand sword", "r hand sword", "l/r hand swords"}

\* The positions of main.items that hold a record of a hand sword.
HandSwordRecords == {k \in 1..Len(items) : items[k].name \in HandSwordNames}

\* The entries processed so far can all be had and have distinct names.
AttainableDistinct ==
    /\ \A i \in 1..Len(Raw) : ~Raw[i].unattainable
    /\ \A i, j \in 1..Len(Raw) : i # j => Raw[i].name # Raw[j].name

\* atk and def of a raw entry, as numberAttribute reads them.
RawAtk(itemData) == numberAttribute(itemData.attributes, "atk", 0)
RawDef(itemData) == numberAttribute(itemData.attributes, "def", 0)

\* C1: Dual-wield merge.  Once a run of attainable entries with distinct
\* names has processed both "l hand sword" and "r hand sword", in either order
\* and with other entries between them, main.items holds exactly one record
\* of a hand sword; it is named "l/r hand swords" and its atk and def are the
\* sums of those of the two entries.
C1_DualWieldMerge ==
    \A l, r \in 1..Len(Raw) :
        ( /\ AttainableDistinct
          /\ Raw[l].name = "l hand sword"
          /\ Raw[r].name = "r hand sword" )
        => /\ Cardinality(HandSwordRecords) = 1
           /\ \A k \in HandSwordRecords :
                /\ items[k].name = "l/r hand swords"
                /\ items[k].atk = RawAtk(Raw[l]) + RawAtk(Raw[r])
                /\ items[k].def = RawDef(Raw[l]) + RawDef(Raw[r])

\* C1's case: the right hand sword (atk 7, def 2), then a dagger, then the
\* left hand sword (atk 5, def 1) have been processed, and the merged record
\* (atk 12, def 3) follows the dagger.
C1_Witness ==
    /\ AttainableDistinct
    /\ Len(Raw) = 3
    /\ Raw[1].name = "r hand sword"
    /\ Raw[2].name = "dagger"
    /\ Raw[3].name = "l hand sword"
    /\ Len(items) = 2
    /\ items[2].name = "l/r hand swords"
    /\ items[2].atk = Whole(12)
    /\ items[2].def = Whole(3)

\* h is Math.round(num / den): h - 1/2 <= num / den < h + 1/2.
IsRounded(h, num, den) ==
    IF den > 0
    THEN (2 * h - 1) * den <= 2 * num /\ 2 * num < (2 * h + 1) * den
    ELSE (2 * h - 1) * den >= 2 * num /\ 2 * num > (2 * h + 1) * den

\* dpt is round(atk / rate * 100) / 100.
IsDptOf(dpt, atk, rate) ==
    /\ dpt.kind = "fin"
    /\ dpt.v % (Scale \div 100) = 0
    /\ IsRounded(dpt.v \div (Scale \div 100), atk * 100, rate)

\* C2: every record of main.items whose rate is not zero has
\* dpt = round(atk / rate * 100) / 100 for its own atk and rate, the merged
\* "l/r hand swords" record (whose atk is a sum) included.
C2_DptOfRecord ==
    \A k \in 1..Len(items) :
        items[k].rate # 0 => IsDptOf(items[k].dpt, items[k].atk, items[k].rate)

\* C2's case: a merged record of atk 5 + 7 and rate 2 (dpt 6), beside a
\* dagger whose dpt (5 / 3) is rounded to 1.67.
C2_Witness ==
    /\ \E k \in 1..Len(items) :
        /\ items[k].name = "l/r hand swords"
        /\ items[k].atk = Whole(12)
        /\ items[k].rate = Whole(2)
        /\ items[k].dpt = Num(Whole(6))
    /\ \E k \in 1..Len(items) :
        /\ items[k].name = "dagger"
        /\ items[k].dpt = Num(16700)

\* C3: the record made from an entry whose rate is 0 (or that has no rate)
\* has a finite dpt; no non-finite value is stored.
C3_FiniteDpt ==
    \A i \in 1..Len(iterations) :
        iterations[i].item.rate = 0 => iterations[i].item.dpt.kind = "fin"

\* The strings of a list of traits.
Texts(special) == [k \in 1..Len(special) |-> special[k].text]

\* The traits of a list that a given push statement made.
OfGroup(special, group) == SelectSeq(special, LAMBDA t : t.group = group)

\* C4: the special list made for an entry holds no string twice.
C4_NoTraitTwice ==
    \A i \in 1..Len(iterations) :
        \A j, k \in 1..Len(iterations[i].item.special) :
            j # k => iterations[i].item.special[j].text # iterations[i].item.special[k].text

\* The attribute a trait is made from (the susceptibility traits are made
\* from the susceptibility elements).
AttributeOfGroup ==
    [ nature |-> "damagetype", status |-> "statusattack", lifesteal |-> "lifesteal",
      atk |-> "atk", def |-> "def", range |-> "range", cure |-> "immunization",
      heal |-> "amount", hurt |-> "amount", regen |-> "regen",
      frequency |-> "frequency" ]

NumericGroups == {"lifesteal", "atk", "def", "range", "heal", "hurt", "regen", "frequency"}

\* The trait t of an entry is made from an attribute the entry has, and, when
\* it prints a number, that number is not zero.
FromPresentNonZero(t, attributes) ==
    t.group \in DOMAIN AttributeOfGroup =>
        /\ attributes[AttributeOfGroup[t.group]].tag # "undefined"
        /\ t.group \in NumericGroups =>
              numberAttribute(attributes, AttributeOfGroup[t.group], 0) # 0

\* C5: an attribute absent from the bag never contributes a trait, and no
\* trait prints a numeric attribute value of zero; regen and frequency
\* included, when amount is not zero and there is no immunization.
C5_AbsentOrZeroNeverPrinted ==
    \A i \in 1..Len(iterations) :
        \A k \in 1..Len(iterations[i].item.special) :
            FromPresentNonZero(iterations[i].item.special[k],
                               iterations[i].itemData.attributes)

\* The place of each push statement in the fixed order.
Rank ==
    [ nature |-> 1, status |-> 2, susceptibility |-> 3, lifesteal |-> 4,
      atk |-> 5, def |-> 6, range |-> 7,
      cure |-> 8, heal |-> 8, hurt |-> 8 ] @@ ("immunity duration" :> 9)
    @@ [ regen |-> 9, frequency |-> 10 ]

\* The susceptibility elements of a list that give a trait, in their order.
Emitting(list) == SelectSeq(list, LAMBDA sus : SusceptibilityTrait(sus) # <<>>)

\* The susceptibility traits of special are those of the elements of list, in
\* the order of the document.
InDocumentOrder(special, list) ==
    /\ Len(OfGroup(special, "susceptibility")) = Len(Emitting(list))
    /\ \A k \in 1..Len(Emitting(list)) :
         <<OfGroup(special, "susceptibility")[k]>> = SusceptibilityTrait(Emitting(list)[k])

\* C6: the traits of special are in the fixed order: damage nature, status
\* effect, the susceptibilities in the order of the document, lifesteal, atk,
\* def, range, then the consumable traits (cure, immunity duration | heal or
\* hurt, regen, frequency); no trait of a later group precedes one of an
\* earlier group.
C6_FixedOrder ==
    \A i \in 1..Len(iterations) :
        /\ \A j, k \in 1..Len(iterations[i].item.special) :
             j < k =>
                \/ Rank[iterations[i].item.special[j].group]
                     < Rank[iterations[i].item.special[k].group]
                \/ /\ iterations[i].item.special[j].group = "susceptibility"
                   /\ iterations[i].item.special[k].group = "susceptibility"
        /\ InDocumentOrder(iterations[i].item.special,
                           iterations[i].itemData.susceptibility)

\* C6's case: an entry with a trait of every group: nature, status, two
\* susceptibilities, lifesteal, atk, def, range, heal, regen and frequency.
C6_Witness ==
    \E i \in 1..Len(iterations) :
        /\ Len(iterations[i].item.special) = 11
        /\ Len(OfGroup(iterations[i].item.special, "susceptibility")) = 2
        /\ iterations[i].item.special[1].group = "nature"
        /\ iterations[i].item.special[5].group = "lifesteal"
        /\ iterations[i].item.special[11].group = "frequency"

\* The statusattack value of the i-th entry processed.
StatusAttackOf(i) == iterations[i].itemData.attributes["statusattack"]

\* The strings pushed for the statusattack of the i-th entry processed.
StatusTextsOf(i) == Texts(OfGroup(iterations[i].item.special, "status"))

MentionsPoison(text) == Includes(text, Poison) \/ Includes(text, Venom)

\* C7: a statusattack that holds "poison" or "venom" gives exactly the trait
\* "poison", with or without a comma in it; the comma rule and the verbatim
\* rule apply only when it holds neither: "poison,weak" gives "poison",
\* "fire,ice" gives "ice", "shock" gives "shock".
C7_PoisonFirst ==
    \A i \in 1..Len(iterations) :
        StatusAttackOf(i).tag = "string" =>
            /\ MentionsPoison(StatusAttackOf(i).s) <=> StatusTextsOf(i) = <<"poison">>
            /\ StatusAttackOf(i).s = <<"p", "o", "i", "s", "o", "n", ",", "w", "e", "a", "k">> => StatusTextsOf(i) = <<"poison">>
            /\ StatusAttackOf(i).s = <<"f", "i", "r", "e", ",", "i", "c", "e">> => StatusTextsOf(i) = <<"ice">>
            /\ StatusAttackOf(i).s = <<"s", "h", "o", "c", "k">> => StatusTextsOf(i) = <<"shock">>

\* C7's case: the statusattack "poison,weak", which holds both "poison" and
\* a comma, has given "poison".
C7_Witness ==
    \E i \in 1..Len(iterations) :
        /\ StatusAttackOf(i).tag = "string"
        /\ StatusAttackOf(i).s = <<"p", "o", "i", "s", "o", "n", ",", "w", "e", "a", "k">>
        /\ StatusTextsOf(i) = <<"poison">>

\* The statusattack of the i-th entry falls under the comma rule.
UnderCommaRule(i) ==
    /\ StatusAttackOf(i).tag = "string"
    /\ ~MentionsPoison(StatusAttackOf(i).s)
    /\ Includes(StatusAttackOf(i).s, <<",">>)

\* What follows the first comma of text, to its end.
AfterFirstComma(text) == SubSeq(text, IndexOfChar(text, ",") + 1, Len(text))

\* What stands before the first comma of text; all of it when it has none.
BeforeFirstComma(text) ==
    IF IndexOfChar(text, ",") = 0 THEN text
    ELSE SubSeq(text, 1, IndexOfChar(text, ",") - 1)

\* C8 as claimed: under the comma rule the trait is all that follows the first
\* comma, for values with two or more commas too.
C8_RestAfterFirstComma ==
    \A i \in 1..Len(iterations) :
        UnderCommaRule(i) =>
            StatusTextsOf(i) = <<Str(AfterFirstComma(StatusAttackOf(i).s))>>

\* C8, amended: under the comma rule the trait is what stands between the
\* first comma and the second (to the end of the value when it has only one
\* comma): the second comma-separated field.
C8_SecondField ==
    \A i \in 1..Len(iterations) :
        UnderCommaRule(i) =>
            StatusTextsOf(i)
              = <<Str(BeforeFirstComma(AfterFirstComma(StatusAttackOf(i).s)))>>

\* C8's case: "a,b,c", with two commas, has given "b".
C8_Witness ==
    \E i \in 1..Len(iterations) :
        /\ UnderCommaRule(i)
        /\ StatusAttackOf(i).s = <<"a", ",", "b", ",", "c">>
        /\ StatusTextsOf(i) = <<"b">>

\* A percentage given in tenths of a percent, as the page shows it: one
\* decimal, left out when it is zero.
TenthsToString(d) ==
    (IF d < 0 THEN "-" ELSE "")
    \o ToString(Abs(d) \div 10)
    \o (IF Abs(d) % 10 = 0 THEN "" ELSE "." \o ToString(Abs(d) % 10))

\* The raw multiplier of a susceptibility element, 1 when it has none.
RawMultiplier(sus) == parseNumberDefault(sus.value, Whole(1))

\* pct = round(raw * 1000) / 10, in tenths of a percent: the integer nearest
\* to raw * 1000.
PctTenths(sus) ==
    CHOOSE h \in { (RawMultiplier(sus) * 1000) \div Scale,
                   (RawMultiplier(sus) * 1000) \div Scale + 1 } :
        IsRounded(h, RawMultiplier(sus) * 1000, Scale)

\* display = 100 - pct, in tenths of a percent.
DisplayTenths(sus) == 1000 - PctTenths(sus)

\* The traits of one susceptibility element, as C9 states them.
ExpectedSusceptibility(sus) ==
    IF DisplayTenths(sus) # 0
    THEN << sus.type \o " ("
            \o (IF DisplayTenths(sus) > 0 THEN "+" ELSE "")
            \o TenthsToString(DisplayTenths(sus)) \o "%)" >>
    ELSE <<>>

RECURSIVE ExpectedSusceptibilities(_)
ExpectedSusceptibilities(list) ==
    IF list = <<>> THEN <<>>
    ELSE ExpectedSusceptibility(Head(list)) \o ExpectedSusceptibilities(Tail(list))

\* C9: for each susceptibility pair (type, raw), with
\* pct = round(raw * 1000) / 10 and display = 100 - pct, a trait is appended
\* if and only if display is not 0, and it is "<type> (<sign><display>%)",
\* the sign being "+" exactly when display > 0: raw 0.8 gives "+20%", raw 1.0
\* gives no trait, a raw above 1 gives a negative percentage without "+".
C9_SusceptibilityTransform ==
    \A i \in 1..Len(iterations) :
        /\ Texts(OfGroup(iterations[i].item.special, "susceptibility"))
             = ExpectedSusceptibilities(iterations[i].itemData.susceptibility)
        /\ iterations[i].itemData.susceptibility
             = <<Susceptibility("fire", Text(<<"0", ".", "8">>))>>
           => Texts(OfGroup(iterations[i].item.special, "susceptibility"))
                = <<"fire (+20%)">>
        /\ iterations[i].itemData.susceptibility
             = <<Susceptibility("ice", Text(<<"1", ".", "0">>))>>
           => OfGroup(iterations[i].item.special, "susceptibility") = <<>>
        /\ iterations[i].itemData.susceptibility
             = <<Susceptibility("dark", Text(<<"1", ".", "2", "5">>))>>
           => Texts(OfGroup(iterations[i].item.special, "susceptibility"))
                = <<"dark (-25%)">>

\* C9's case: an entry with the pairs (light, 0.875) and (ice, 1.0) only: the
\* first has given "light (+12.5%)", the second nothing.
C9_Witness ==
    \E i \in 1..Len(iterations) :
        /\ iterations[i].itemData.susceptibility
             = << Susceptibility("light", Text(<<"0", ".", "8", "7", "5">>)),
                  Susceptibility("ice", Text(<<"1", ".", "0">>)) >>
        /\ Texts(iterations[i].item.special) = <<"light (+12.5%)">>

\* The names that are a weapon, an armor or a projectile type.
WeaponNames == {"weapons", "axes", "clubs", "ranged", "swords", "whips"}
ArmorNames == {"protective", "armors", "boots", "cloaks", "helmets", "legs", "shields"}
ProjectileNames == {"projectiles", "arrows", "missiles"}

\* text is one of the strings of special.
HasTrait(special, text) == \E k \in 1..Len(special) : special[k].text = text

\* C10: "atk=<atk>" is in special if and only if atk is not zero and the class
\* selected is neither a weapon nor a projectile type; "def (<def>)" if and
\* only if def is not zero and the class selected is not an armor type;
\* "range (<range>)" if and only if range is not zero and the class selected
\* is neither "ranged" nor a projectile type.  The class that counts is
\* main.className, not the class of the item.
C10_ContextConditionalStats ==
    \A i \in 1..Len(iterations) :
        /\ HasTrait(iterations[i].item.special,
                    "atk=" \o NumberToString(iterations[i].item.atk))
           <=> /\ iterations[i].item.atk # 0
               /\ className \notin WeaponNames \cup ProjectileNames
        /\ HasTrait(iterations[i].item.special,
                    "def (" \o NumberToString(iterations[i].item.def) \o ")")
           <=> /\ iterations[i].item.def # 0
               /\ className \notin ArmorNames
        /\ HasTrait(iterations[i].item.special,
                    "range (" \o NumberToString(iterations[i].item.range) \o ")")
           <=> /\ iterations[i].item.range # 0
               /\ className \notin {"ranged"} \cup ProjectileNames

\* C10's case: with "protective" selected, an entry of class "swords" with
\* atk 5, def 3 and range 2 has the traits of atk and range, not that of def.
C10_Witness ==
    \E i \in 1..Len(iterations) :
        /\ className = "protective"
        /\ iterations[i].item.class = "swords"
        /\ Texts(iterations[i].item.special) = <<"atk=5", "range (2)">>
        /\ iterations[i].item.def = Whole(3)

\* The groups of the consumable traits.
ConsumableGroups == {"cure", "immunity duration", "heal", "hurt", "regen", "frequency"}

\* The strings the consumable statements pushed for the i-th entry processed.
ConsumableTextsOf(i) ==
    Texts(SelectSeq(iterations[i].item.special, LAMBDA t : t.group \in ConsumableGroups))

\* The attributes of the i-th entry processed, and its numbers as extracted.
AttributesOf(i) == iterations[i].itemData.attributes
AmountOf(i) == numberAttribute(AttributesOf(i), "amount", 0)
RegenOf(i) == numberAttribute(AttributesOf(i), "regen", 0)
FrequencyOf(i) == numberAttribute(AttributesOf(i), "frequency", 0)

\* The immunization attribute of the i-th entry names a cure.
NamesCure(i) ==
    /\ AttributesOf(i)["immunization"].tag = "string"
    /\ AttributesOf(i)["immunization"].s # <<>>

\* "regen (<regen>)" and "frequency (<frequency>)" when they diverge.
ExpectedRegen(i) ==
    IF FrequencyOf(i) # Whole(1) \/ RegenOf(i) # AmountOf(i)
    THEN << "regen (" \o NumberToString(RegenOf(i)) \o ")",
            "frequency (" \o NumberToString(FrequencyOf(i)) \o ")" >>
    ELSE <<>>

\* The consumable traits C11 states for the i-th entry.
ExpectedConsumable(i) ==
    IF AmountOf(i) = 0 THEN <<>>
    ELSE IF NamesCure(i)
    THEN << "cure (" \o Str(AttributesOf(i)["immunization"].s) \o ")",
            "immunity duration (" \o NumberToString(AmountOf(i)) \o ")" >>
    ELSE << (IF AmountOf(i) > 0 THEN "heal" ELSE "hurt")
            \o " (" \o NumberToString(AmountOf(i)) \o ")" >>
         \o ExpectedRegen(i)

\* C11: with amount 0 or absent no consumable trait is appended; with a
\* non-zero amount and an immunization that names a cure, exactly
\* "cure (<cure>)" and "immunity duration (<amount>)"; otherwise
\* "heal (<amount>)" for amount > 0 and "hurt (<amount>)" for amount < 0,
\* followed by "regen (<regen>)" and "frequency (<frequency>)" if and only if
\* frequency is not 1 or regen differs from amount.
C11_ConsumableEffects ==
    \A i \in 1..Len(iterations) :
        /\ ConsumableTextsOf(i) = ExpectedConsumable(i)
        /\ AttributesOf(i)["amount"].tag = "undefined" => ConsumableTextsOf(i) = <<>>
        /\ AttributesOf(i)["amount"] = Text(<<"0">>) => ConsumableTextsOf(i) = <<>>

\* C11's case: amount 50 with regen 50 and frequency 2 and no immunization:
\* the heal trait is followed by regen and frequency.
C11_Witness ==
    \E i \in 1..Len(iterations) :
        /\ AttributesOf(i)["amount"] = Text(<<"5", "0">>)
        /\ AttributesOf(i)["regen"] = Text(<<"5", "0">>)
        /\ AttributesOf(i)["frequency"] = Text(<<"2">>)
        /\ AttributesOf(i)["immunization"].tag = "undefined"
        /\ ConsumableTextsOf(i) = <<"heal (50)", "regen (50)", "frequency (2)">>

\* The strings the lifesteal statement pushed for the i-th entry processed.
LifestealTextsOf(i) == Texts(OfGroup(iterations[i].item.special, "lifesteal"))

\* v = lifesteal * 100, lifesteal being the attribute as extracted.
LifestealPercentOf(i) == numberAttribute(AttributesOf(i), "lifesteal", 0) * 100

\* C12: "lifesteal (<sign><v>%)" with v = lifesteal * 100 is appended if and
\* only if v is not zero, with an explicit "+" exactly when v > 0; an absent or
\* zero lifesteal appends nothing.
C12_Lifesteal ==
    \A i \in 1..Len(iterations) :
        /\ LifestealTextsOf(i)
             = IF LifestealPercentOf(i) = 0 THEN <<>>
               ELSE << "lifesteal ("
                       \o (IF LifestealPercentOf(i) > 0 THEN "+" ELSE "")
                       \o NumberToString(LifestealPercentOf(i)) \o "%)" >>
        /\ AttributesOf(i)["lifesteal"].tag = "undefined" => LifestealTextsOf(i) = <<>>
        /\ AttributesOf(i)["lifesteal"] = Text(<<"0">>) => LifestealTextsOf(i) = <<>>
        /\ AttributesOf(i)["lifesteal"] = Text(<<"0", ".", "1">>)
           => LifestealTextsOf(i) = <<"lifesteal (+10%)">>
        /\ AttributesOf(i)["lifesteal"] = Text(<<"-", "0", ".", "1">>)
           => LifestealTextsOf(i) = <<"lifesteal (-10%)">>
        /\ AttributesOf(i)["lifesteal"] = Text(<<"0", ".", "1", "2", "5">>)
           => LifestealTextsOf(i) = <<"lifesteal (+12.5%)">>

\* C12's case: a lifesteal of 0.125 and an atk of 5 under a class that shows
\* atk: the lifesteal trait and then that of atk.
C12_Witness ==
    \E i \in 1..Len(iterations) :
        /\ AttributesOf(i)["lifesteal"] = Text(<<"0", ".", "1", "2", "5">>)
        /\ Texts(iterations[i].item.special) = <<"lifesteal (+12.5%)", "atk=5">>

\* The passes of the loop made for an entry with the unattainable marker.
UnattainablePasses == SelectSeq(iterations, LAMBDA it : it.itemData.unattainable)

\* The debug lines of the log.
DebugLines == SelectSeq(log, LAMBDA l : l.level = "debug")

\* How many passes pushed a record, and how many popped one for the merge.
PushedCount == Len(SelectSeq(iterations, LAMBDA it : it.pushed))
MergedCount == Len(SelectSeq(iterations, LAMBDA it : it.merged))

\* C13: an entry with the unattainable marker is appended to main.items if and
\* only if main.showUnattainable is true, and a diagnostic line is logged for
\* it in both cases; an entry without the marker is never dropped by this
\* step.  With the flag off no record built from an unattainable entry is in
\* main.items: every record there is the record of a pass for an entry
\* without the marker.
C13_UnattainableFilter ==
    /\ \A i \in 1..Len(iterations) :
         /\ iterations[i].itemData.unattainable
            => (iterations[i].pushed <=> showUnattainable)
         /\ ~iterations[i].itemData.unattainable => iterations[i].pushed
    /\ Len(items) = PushedCount - MergedCount
    /\ iterations # <<>> /\ iterations[Len(iterations)].pushed
       => /\ items # <<>>
          /\ items[Len(items)] = iterations[Len(iterations)].item
    /\ Len(DebugLines) = Len(UnattainablePasses)
    /\ \A k \in 1..Len(DebugLines) :
         DebugLines[k].msg = "Unattainable: " \o UnattainablePasses[k].item.name
    /\ ~showUnattainable
       => \A k \in 1..Len(items) :
            \E i \in 1..Len(iterations) :
                /\ iterations[i].item = items[k]
                /\ iterations[i].pushed
                /\ ~iterations[i].itemData.unattainable

\* C13's case: with the flag off, an entry with the marker has been processed
\* and dropped with its line logged, and another entry has been appended.
C13_Witness ==
    /\ ~showUnattainable
    /\ Len(items) = 1
    /\ Len(DebugLines) = 1
    /\ \E i, j \in 1..Len(iterations) :
         /\ iterations[i].itemData.unattainable /\ ~iterations[i].pushed
         /\ ~iterations[j].itemData.unattainable /\ iterations[j].pushed

\* C14: isWeaponType, isArmorType and isProjectileType are true if and only if
\* the name is the group's own name or a member of its table, isRangedType
\* only for "ranged"; isWeaponType("axes"), isWeaponType("weapons") and
\* isArmorType("legs") are true, isRangedType("swords") is false; no name is
\* more than one of weapon, armor and projectile.
C14_Classification ==
    \A k \in 1..Len(log) :
        /\ log[k].weapon <=> log[k].name \in WeaponNames
        /\ log[k].armor <=> log[k].name \in ArmorNames
        /\ log[k].projectile <=> log[k].name \in ProjectileNames
        /\ log[k].ranged <=> log[k].name = "ranged"
        /\ log[k].name \in {"axes", "weapons"} => log[k].weapon
        /\ log[k].name = "legs" => log[k].armor
        /\ log[k].name = "swords" => ~log[k].ranged
        /\ ~(log[k].weapon /\ log[k].armor)
        /\ ~(log[k].weapon /\ log[k].projectile)
        /\ ~(log[k].armor /\ log[k].projectile)

\* C14's case: "weapons" and then "swords" have been classified.
C14_Witness ==
    /\ Len(log) = 2
    /\ log[1] = [name |-> "weapons", weapon |-> TRUE, armor |-> FALSE,
                 ranged |-> FALSE, projectile |-> FALSE]
    /\ log[2] = [name |-> "swords", weapon |-> TRUE, armor |-> FALSE,
                 ranged |-> FALSE, projectile |-> FALSE]

\* The strings of ExtractedValues that hold no finite number.
NotFiniteNumbers ==
    { Null, Text(<<"a", "b", "c">>), Text(<<>>), Text(<<".">>),
      Text(<<"I", "n", "f", "i", "n", "i", "t", "y">>),
      Text(<<"-", "I", "n", "f", "i", "n", "i", "t", "y">>) }

\* The value of the attribute a call asks for.
AskedValue(call) == call.attributes[call.name]

\* C15: for a name absent from the bag numberAttribute returns the caller's
\* default (0 when none is given) and stringAttribute the absent sentinel
\* undefined; for a present attribute whose value parses to no finite number
\* numberAttribute returns the caller's default; neither function modifies the
\* bag or any other state.
C15_ExtractionDefaults ==
    /\ \A k \in 1..Len(log) :
         /\ AskedValue(log[k].call).tag = "undefined"
            => /\ log[k].number = (IF log[k].call.def.given THEN log[k].call.def.v ELSE 0)
               /\ log[k].string.tag = "undefined"
         /\ AskedValue(log[k].call) \in NotFiniteNumbers
            => log[k].number = (IF log[k].call.def.given THEN log[k].call.def.v ELSE 0)
         /\ AskedValue(log[k].call).tag # "undefined"
            => log[k].string = AskedValue(log[k].call)
         /\ log[k].call = pending[1]
    /\ className = "weapons" /\ items = <<>> /\ available = <<>> /\ iterations = <<>>
    /\ Len(pending) = 1

\* C15's case: numberAttribute(bag, "def", 1) and stringAttribute(bag, "def")
\* on a bag that has an <atk> child only: 1 and undefined.
C15_Witness ==
    /\ Len(log) = 1
    /\ log[1].call.name = "def"
    /\ log[1].call.attributes["atk"] = Text(<<"5">>)
    /\ log[1].call.def = Default(Whole(1))
    /\ log[1].number = Whole(1)
    /\ log[1].string = Undefined

\* C16: a damagetype, statusattack or immunization that is present with the
\* empty string as its value is handled as present, not as an absent one: the
\* empty damagetype and statusattack are pushed as they are, and an empty
\* immunization (with a non-zero amount) takes the cure branch, not the
\* heal/hurt branch.
C16_EmptyIsPresent ==
    \A i \in 1..Len(iterations) :
        /\ AttributesOf(i)["damagetype"] = Text(<<>>)
           => Texts(OfGroup(iterations[i].item.special, "nature")) = <<"">>
        /\ AttributesOf(i)["statusattack"] = Text(<<>>)
           => StatusTextsOf(i) = <<"">>
        /\ AttributesOf(i)["immunization"] = Text(<<>>) /\ AmountOf(i) # 0
           => ConsumableTextsOf(i)
                = << "cure ()",
                     "immunity duration (" \o NumberToString(AmountOf(i)) \o ")" >>

\* The table of each group, and the documents of a run for the class selected.
TableOf(name) ==
    IF name = "weapons" THEN <<"axes", "clubs", "ranged", "swords", "whips">>
    ELSE IF name = "protective"
    THEN <<"armors", "boots", "cloaks", "helmets", "legs", "shields">>
    ELSE IF name = "projectiles" THEN <<"arrows", "missiles">>
    ELSE <<name>>

\* How many class documents have been dealt with (parsed, or failed).
DoneCount == Len(TableOf(className)) - Len(pending)

\* The class documents still to fetch are the rest of the table of the class
\* selected, after those dealt with.
RestOfTable ==
    /\ Len(pending) <= Len(TableOf(className))
    /\ pending = SubSeq(TableOf(className), DoneCount + 1, Len(TableOf(className)))

\* A step that runs passes of parseItems or appends to main.items: it is the
\* step of the first class still to fetch, and of that class alone; what the
\* steps before have appended to the history of passes stays as it is.
OneClassAtATime ==
    iterations' # iterations \/ items' # items \/ pending' # pending
    => /\ pending # <<>>
       /\ pending' = Tail(pending)
       /\ Len(iterations') >= Len(iterations)
       /\ SubSeq(iterations', 1, Len(iterations)) = iterations

\* C17: the class documents of a run are fetched and parsed one at a time in
\* the order of the group's table: each step parses the document of the first
\* class of the table not yet dealt with, whole, before the next is fetched, so
\* every pass (and every record appended) for class k comes before any for
\* class k + 1.
C17_ClassOrder ==
    /\ [](pc \in {"fetchItems", "displayItems", "done"} => RestOfTable)
    /\ [][pc = "fetchItems" => OneClassAtATime]_vars

\* C17's case: a run over the group weapons has parsed the documents of axes,
\* clubs and ranged, two entries in all, and swords is the next.
C17_Witness ==
    /\ className = "weapons"
    /\ pc = "fetchItems"
    /\ pending = <<"swords", "whips">>
    /\ Len(iterations) = 2
    /\ Len(items) = 2

\* A step in which the fetch of a class document fails: its error line is
\* added to the log.
FetchFailureStep == FetchFailures' = FetchFailures + 1

\* What the failure of the fetch of the class Head(pending) does: the error
\* is logged, no pass is made and main.items is as before (the class gives no
\* record, and what the other classes give starts from the same main.items
\* as after an empty document), and the run goes on with the next class, or
\* with the display after the last.
FailureIsAnEmptyClass ==
    /\ log' = Append(log, [level |-> "error", msg |-> "fetch items"])
    /\ items' = items
    /\ iterations' = iterations
    /\ className' = className /\ showUnattainable' = showUnattainable
    /\ pending # <<>>
    /\ pending' = Tail(pending)
    /\ pc' = IF Tail(pending) = <<>> THEN "displayItems" ELSE "fetchItems"

\* C18: when the fetch of one class document fails, the class gives no record,
\* an error is logged, every later class of the group is still fetched and
\* parsed, the records of the other classes are those they give without the
\* failure, and the run still reaches the display.
C18_PartialFailure ==
    /\ [][FetchFailureStep => FailureIsAnEmptyClass]_vars
    /\ [](pc \in {"fetchItems", "displayItems", "done"} => RestOfTable)
    /\ (FetchFailures > 0) ~> (pc = "done" /\ pending = <<>>)

\* C18's case: in a run over the group weapons the fetch of a class has
\* failed, a later class has been parsed (the debug line of its unattainable
\* entry follows the error in the log) and its record is in main.items, and
\* the display is reached.
C18_Witness ==
    /\ className = "weapons"
    /\ showUnattainable
    /\ pc = "displayItems"
    /\ log = << [level |-> "error", msg |-> "fetch items"],
                [level |-> "debug", msg |-> "Unattainable: r hand sword"] >>
    /\ Len(items) = 1

\* The error lines fetchText logs for an exception that left parseItems.
TypeErrors == SelectSeq(log, LAMBDA l : l = [level |-> "error", msg |-> "TypeError"])

\* C19: for every raw entry, the degenerate ones included (no attributes
\* block, no type descriptor, a statusattack or damagetype without a value
\* attribute), parseItems raises no error: none is caught and logged by
\* fetchText, and the entry of the document delivered has had its pass.
C19_NoException ==
    /\ TypeErrors = <<>>
    /\ pc # "fetchClasses" /\ Len(pending) < Len(TableOf(className))
       => Len(iterations) = 1

RECURSIVE Strike(_, _)
\* list without the records at the positions in P.
Strike(list, P) ==
    IF list = <<>> THEN <<>>
    ELSE Strike(SubSeq(list, 1, Len(list) - 1), P)
         \o (IF Len(list) \in P THEN <<>> ELSE <<list[Len(list)]>>)

\* The positions of list that hold a hand-sword half.
HalfPositions(list) ==
    {k \in 1..Len(list) : list[k].name \in {"l hand sword", "r hand sword"}}

\* How many records of list from position from on are merged records.
MergedFrom(list, from) ==
    Cardinality({k \in from..Len(list) : list[k].name = "l/r hand swords"})

\* main.items after a step against main.items before it: the records at the
\* positions P, all hand-sword halves, have been removed, every other record
\* is where it was and as it was, ahead of the records appended, and each
\* half removed has come back as a merged record among those appended (which
\* may hold further merged records, of halves that came in the same step).
OnlyHalvesReinserted(P) ==
    /\ Len(items') >= Len(Strike(items, P))
    /\ SubSeq(items', 1, Len(Strike(items, P))) = Strike(items, P)
    /\ MergedFrom(items', Len(Strike(items, P)) + 1) >= Cardinality(P)

\* C20: processing raw entries never removes, reorders or modifies a record
\* already in main.items, except that a hand-sword half is removed and put
\* back, as the merged record, at the end, when its complementary entry
\* arrives; a record is removed and put back at most once, and a record named
\* "l/r hand swords" is never removed or modified by later entries.
C20_AppendOnly ==
    [][\E P \in SUBSET HalfPositions(items) : OnlyHalvesReinserted(P)]_vars

\* The document of the class "ranged" is one of those fetched for the class
\* selected: the class selected is "ranged" or the group that lists it.
RangedIsFetched == Contains(ClassesToFetch(className), "ranged")

\* C21: end to end.  When the class selected has the document of the class
\* "ranged" fetched and the document processed holds the wooden bow alone
\* (class "ranged", atk 4, rate 2, no other attribute, no susceptibility, no
\* unattainable marker), main.items holds exactly one record: that of the
\* bow, with atk 4, rate 2, dpt 2 and an empty special list.
C21_EndToEnd ==
    (RangedIsFetched /\ Raw = <<WoodenBow>>)
    => /\ Len(items) = 1
       /\ items[1].name = "wooden bow"
       /\ items[1].class = "ranged"
       /\ items[1].atk = Whole(4)
       /\ items[1].rate = Whole(2)
       /\ items[1].dpt = Num(Whole(2))
       /\ items[1].special = <<>>

\* C21's case: with "ranged" selected, the document of the bow has been
\* processed and main.items holds its record.
C21_Witness ==
    /\ className = "ranged"
    /\ Raw = <<WoodenBow>>
    /\ Len(items) = 1
    /\ items[1].name = "wooden bow"
    /\ items[1].dpt = Num(Whole(2))

\* The elements of a sequence.
Range(seq) == {seq[i] : i \in DOMAIN seq}

\* The names offered: those of the groups, and the classes of items.xml that
\* are not in the exclude set.
Offered == Range(getGroupNames) \cup (Range(ItemsXml) \ Range(excludes))

\* What parseClasses makes of the class parameter param of the URL: the name
\* requested is selected when it is offered, with no diagnostic; when it is
\* not offered "weapons" is selected and, if a name was requested at all, one
\* error line that names it is logged.
Resolves(param) ==
    IF param.tag = "string" /\ param.s \in Offered
    THEN className' = param.s /\ log' = log
    ELSE /\ className' = "weapons"
         /\ log' = IF param.tag = "string"
                   THEN Append(log, [level |-> "error",
                                     msg |-> "Unknown item class: " \o param.s])
                   ELSE log

\* C22: class selection.  main.className is always one of the names offered;
\* no class of the exclude set is ever in classes.available; and parseClasses
\* selects the class requested when it is offered and otherwise, as for the
\* excluded "dummy_weapons", selects "weapons" and logs an error line that
\* names the request, the run going on to fetch the items of "weapons".
C22_ClassSelection ==
    /\ [](className \in Offered)
    /\ [](Range(available) \cap Range(excludes) = {})
    /\ [][\A param \in TraitClassParams :
            FetchClassesFrom({param})
            => Resolves(param) /\ pending' = ClassesToFetch(className')]_vars

\* C22's case: "dummy_weapons" was requested; it is not available,
\* "weapons" is selected, the error line is logged and the run has gone on.
C22_Witness ==
    /\ className = "weapons"
    /\ available = <<"armors", "arrows", "money", "ranged", "swords">>
    /\ log = <<[level |-> "error", msg |-> "Unknown item class: dummy_weapons"]>>
    /\ pc = "fetchItems"
    /\ pending = groups_weapons

\* Two entries have been processed and the second found the record of the
\* first in main.items and merged with it.
HalvesMerged == Len(iterations) = 2 /\ iterations[2].merged

\* The record made for the half that arrived first, the raw entry of the half
\* that arrived second, and the merged record.
FirstHalf == iterations[1].item
SecondHalf == iterations[2].itemData
MergedRecord == iterations[2].item

\* The merged record but for its special list: the name is "l/r hand swords",
\* class, image, value, level, rate and range are those of the first half,
\* atk and def the sums, and dpt is round((atk_first + atk_second) /
\* rate_first * 100) / 100.
MergedFields ==
    /\ MergedRecord.name = "l/r hand swords"
    /\ MergedRecord.class = FirstHalf.class
    /\ MergedRecord.image = FirstHalf.image
    /\ MergedRecord.value = FirstHalf.value
    /\ MergedRecord.level = FirstHalf.level
    /\ MergedRecord.rate = FirstHalf.rate
    /\ MergedRecord.range = FirstHalf.range
    /\ MergedRecord.atk = FirstHalf.atk + RawAtk(SecondHalf)
    /\ MergedRecord.def = FirstHalf.def + RawDef(SecondHalf)
    /\ FirstHalf.rate # 0
       => IsDptOf(MergedRecord.dpt, FirstHalf.atk + RawAtk(SecondHalf), FirstHalf.rate)

\* The record the second entry alone would give, with the summed atk and def.
SecondHalfWithSums ==
    [NewItem(SecondHalf) EXCEPT !.atk = MergedRecord.atk, !.def = MergedRecord.def]

\* C23 as stated: the merged record keeps class, image, value, level, rate
\* and range of the half that arrived first, its dpt is that of the summed
\* atk and the first rate, and its special list is made only from the
\* attributes and susceptibilities of the half that arrived second, with the
\* summed atk and def.
C23_SpecialFromSecondOnly ==
    HalvesMerged
    => /\ MergedFields
       /\ MergedRecord.special = Special(SecondHalf, SecondHalfWithSums, className)

\* C23, amended: as stated, but the trait of range is that of the range of
\* the merged record, which is the range of the half that arrived first; the
\* other traits are made from the attributes and susceptibilities of the
\* half that arrived second, with the summed atk and def.
C23_MergedComposition ==
    HalvesMerged
    => /\ MergedFields
       /\ MergedRecord.special
          = Special(SecondHalf, [SecondHalfWithSums EXCEPT !.range = FirstHalf.range], className)
       /\ HasTrait(MergedRecord.special, "range (" \o NumberToString(FirstHalf.range) \o ")")
          <=> (FirstHalf.range # 0 /\ className \notin {"ranged"} \cup ProjectileNames)

\* main.items after the two entries processed, had they come the other way
\* round.
SwappedItems ==
    ParseLoop([items |-> <<>>, log |-> <<>>, iterations |-> <<>>, threw |-> FALSE],
              <<Raw[2], Raw[1]>>, className, showUnattainable).items

\* C23's case: the first half (class "swords", rate 2, range 2, damagetype
\* fire) and the second (class "clubs", rate 3, no range, no damagetype)
\* have merged under the group "weapons": the record has the class, the rate
\* and the range of the first and the dpt of 5 + 7 over 2, its only trait is
\* that of the range of the first, the nature of the first being gone, and
\* the other order of arrival would have given another record.
C23_Witness ==
    /\ HalvesMerged
    /\ className = "weapons"
    /\ FirstHalf.class = "swords" /\ SecondHalf.class = "clubs"
    /\ FirstHalf.rate = Whole(2) /\ FirstHalf.atk = Whole(5) /\ RawAtk(SecondHalf) = Whole(7)
    /\ Texts(FirstHalf.special) = <<"fire", "ice (+20%)", "range (2)">>
    /\ items = <<MergedRecord>>
    /\ MergedRecord.class = "swords"
    /\ MergedRecord.dpt = Num(Whole(6))
    /\ Texts(MergedRecord.special) = <<"range (2)">>
    /\ SwappedItems # items

\* The name of the other half of the hand swords.
OtherHand(name) == IF name = "l hand sword" THEN "r hand sword" ELSE "l hand sword"

\* The step processes one entry; this is its pass of the loop.
OneEntryStep == Len(iterations') = Len(iterations) + 1
PassOfStep == iterations'[Len(iterations')]

\* The entry of the step is a hand-sword half with the unattainable marker,
\* main.showUnattainable is false, and main.items holds one record of a hand
\* sword: the other half.
MarkedHalfMeetsOther ==
    /\ OneEntryStep
    /\ ~showUnattainable
    /\ PassOfStep.itemData.unattainable
    /\ PassOfStep.itemData.name \in {"l hand sword", "r hand sword"}
    /\ Cardinality(HandSwordRecords) = 1
    /\ \A k \in HandSwordRecords : items[k].name = OtherHand(PassOfStep.itemData.name)

\* C24: when a hand-sword half is in main.items and the entry of the other
\* half comes with the unattainable marker while main.showUnattainable is
\* false, the half is removed and the merged record is not appended:
\* afterwards main.items holds no record of a hand sword, is one record
\* shorter than before, and its other records are as they were.
C24_MergeThenDrop ==
    [][MarkedHalfMeetsOther
       => /\ PassOfStep.merged /\ ~PassOfStep.pushed
          /\ PassOfStep.item.name = "l/r hand swords"
          /\ \A k \in 1..Len(items') : items'[k].name \notin HandSwordNames
          /\ Len(items') = Len(items) - 1
          /\ items' = Strike(items, HandSwordRecords)]_vars

\* C24's case: with the flag off, a dagger and the left hand sword were in
\* main.items when the right hand sword came with the marker; only the
\* dagger is left.
C24_Witness ==
    /\ ~showUnattainable
    /\ Len(iterations) = 3
    /\ Raw[1].name = "dagger" /\ iterations[1].pushed
    /\ Raw[2].name = "l hand sword" /\ iterations[2].pushed
    /\ Raw[3].name = "r hand sword" /\ Raw[3].unattainable
    /\ iterations[3].merged /\ ~iterations[3].pushed
    /\ items = <<iterations[1].item>>

\* One list holds the elements of the other, each as many times.
IsPermutation(a, b) ==
    /\ Len(a) = Len(b)
    /\ \A x \in Range(a) \cup Range(b) :
         Cardinality({k \in 1..Len(a) : a[k] = x}) = Cardinality({k \in 1..Len(b) : b[k] = x})

\* No record of rows comes before one that the order asked for puts ahead of
\* it: before one with a smaller value of the field, or with a greater one
\* when the order is descending.
Ordered(rows, sortBy, descending) ==
    \A i, j \in 1..Len(rows) :
        i < j => ~( IF descending
                    THEN LessThan(SortValue(rows[i], sortBy), SortValue(rows[j], sortBy))
                    ELSE LessThan(SortValue(rows[j], sortBy), SortValue(rows[i], sortBy)) )

\* C25: what getSorted returns is a permutation of main.items ordered by the
\* field main.sortBy, ascending, or descending when main.descending is set,
\* and main.items is after the call the list it was before, in content and
\* in order.
C25_SortedCopy ==
    pc = "done"
    => /\ IsPermutation(log[1].rows, items)
       /\ Ordered(log[1].rows, pending[1].sortBy, pending[1].descending)
       /\ items = log[1].given

\* The rows of the table, from the first to the last.
TableRows ==
    [k \in 1..Len(SelectSeq(log, LAMBDA l : l.level = "row")) |->
        SelectSeq(log, LAMBDA l : l.level = "row")[k].msg]

\* The names of the items of the document of the i-th call of getWeapons.
NamesOfCall(i) == {iterations[i].content[j].name : j \in 1..Len(iterations[i].content)}

RECURSIVE RowsBefore(_)
\* How many rows the calls of getWeapons before the i-th have to show: one
\* for each name of their documents.
RowsBefore(i) ==
    IF i = 1 THEN 0 ELSE RowsBefore(i - 1) + Cardinality(NamesOfCall(i - 1))

\* The rows that follow those of the calls before the i-th, as many as the
\* document of the i-th call has names.
RowsOfCall(i) ==
    SubSeq(TableRows, RowsBefore(i) + 1, RowsBefore(i) + Cardinality(NamesOfCall(i)))

\* list holds one record for each name of the document of the i-th call, made
\* from an item of that document, and nothing else.
OnlyItemsOfCall(list, i) ==
    /\ Len(list) = Cardinality(NamesOfCall(i))
    /\ {list[k].name : k \in 1..Len(list)} = NamesOfCall(i)
    /\ \A k \in 1..Len(list) :
         \E j \in 1..Len(iterations[i].content) :
             list[k] = WeaponProperties(iterations[i].content[j])

\* The field sorted by is not NaN in any record of list.
Comparable(list, sortBy) ==
    sortBy = "dpt" => \A k \in 1..Len(list) : list[k].dpt.kind # "nan"

\* C26: in src/js/items.js with the class "all" selected, the fetch of every
\* class is started at once: each class offered is in flight from then on
\* until its response arrives or its fetch fails, so that whichever is in
\* flight may be answered next.  After each call of getWeapons
\* main.data["weapons"] holds the items of the document of that call and no
\* other, so in the end those of the response that arrived last; and the rows
\* of the table are those of the calls in the order of arrival, the rows of a
\* call being the items of its document sorted (as far as the values sorted
\* by can be compared) among themselves only.
C26_ConcurrentFetch ==
    className = "all" /\ pc \in {"fetching", "done"}
    => /\ Len(pending) + Len(iterations) + WeaponFetchFailures = Len(available)
       /\ \A c \in Range(available) :
            Cardinality({k \in 1..Len(pending) : pending[k] = c})
            + Cardinality({i \in 1..Len(iterations) : iterations[i].class = c}) <= 1
       /\ (iterations = <<>> /\ WeaponFetchFailures = 0) => pending = available
       /\ iterations # <<>> => OnlyItemsOfCall(items, Len(iterations))
       /\ Len(TableRows) = RowsBefore(Len(iterations) + 1)
       /\ \A i \in 1..Len(iterations) :
            /\ OnlyItemsOfCall(RowsOfCall(i), i)
            /\ Comparable(RowsOfCall(i), iterations[i].sortBy)
               => Ordered(RowsOfCall(i), iterations[i].sortBy, iterations[i].descending)

\* C26's case: "ranged" is offered before "swords", and the response of
\* "swords" (a dagger) arrived first, that of "ranged" (an axe, a buckler)
\* last: main.data["weapons"] holds the axe and the buckler only, and the
\* rows are the dagger, then the axe and the buckler, sorted by name within
\* each response and not across them.
C26_Witness ==
    /\ className = "all"
    /\ available = <<"ranged", "swords">>
    /\ pc = "done"
    /\ Len(iterations) = 2
    /\ iterations[1].class = "swords" /\ iterations[2].class = "ranged"
    /\ iterations[1].sortBy = "name" /\ ~iterations[1].descending
    /\ [k \in 1..Len(items) |-> items[k].name] = <<"buckler", "axe">>
    /\ [k \in 1..Len(TableRows) |-> TableRows[k].name] = <<"dagger", "axe", "buckler">>
    /\ ~Ordered(TableRows, "name", FALSE)

====
